---- MODULE Spec2Model ----
(***************************************************************************)
(* Clinic appointment backend (src/src/app.py, services/cache_service.py,  *)
(* models/*.py, database/seed_data.py): storage of patients, schedules and *)
(* appointments, the Redis schedule cache, the REST endpoints and the      *)
(* conversational agent endpoint with its per-user session map.            *)
(*                                                                         *)
(* Python values are modelled as follows.  A dict is a function whose      *)
(* DOMAIN is the set of keys present.  A date object is a record           *)
(* [y, m, d], a time object a record [h, mi]; strptime / isoformat / str   *)
(* are tables over the finite set of texts the inputs are drawn from.      *)
(* A database row id is the row's index in the table's sequence.           *)
(* A request handler runs to completion in one step.                       *)
(***************************************************************************)
EXTENDS Integers, Sequences, FiniteSets, TLC

VARIABLES
    patients,       \* table patients: Seq of rows
    appointments,   \* table appointments: Seq of rows
    schedules,      \* table schedules: Seq of rows
    user_sessions,  \* app.py user_sessions: dict  normalized user id -> session
    redis_store,    \* the Redis key space: dict  key -> serialized text
    redis_mode,     \* "none": redis_client is None; "up" / "down": the store answers / raises
    reply,          \* the response of the request handled last
    inflight        \* requests being handled step by step: request -> position and locals

vars == <<patients, appointments, schedules, user_sessions, redis_store, redis_mode, reply,
         inflight>>

\* Bound on the number of appointment rows the model lets the table grow to.
MaxAppointments == 2

\* Bound on the number of requests the server threads handle at the same time.
MaxRequests == 2

Requests == 1..MaxRequests

\* A request slot with no request in it, and all slots empty.
NoRequest == [op |-> "none", pc |-> "done"]

NoRequests == [r \in Requests |-> NoRequest]

----------------------------------------------------------------------------
(* Python dict helpers *)

EmptyDict == [k \in {} |-> 0]

Has(d, k) == k \in DOMAIN d

Put(d, k, v) == [x \in DOMAIN d \cup {k} |-> IF x = k THEN v ELSE d[x]]

Update(d, e) == [x \in DOMAIN d \cup DOMAIN e |-> IF x \in DOMAIN e THEN e[x] ELSE d[x]]

Without(d, ks) == [x \in DOMAIN d \ ks |-> d[x]]

\* Ascending sequence of the elements of a finite set of integers.
RECURSIVE SortedSeq(_)
SortedSeq(S) ==
    IF S = {} THEN <<>>
    ELSE LET lo == CHOOSE x \in S : \A y \in S : x <= y
         IN <<lo>> \o SortedSeq(S \ {lo})

----------------------------------------------------------------------------
(* Dates and times: datetime.strptime, date.isoformat, str(time) *)

\* datetime.strptime(s, '%Y-%m-%d').date(); [ok |-> FALSE] stands for ValueError.
ParseDate(s) ==
    CASE s = "2024-01-15" -> [ok |-> TRUE, v |-> [y |-> 2024, m |-> 1, d |-> 15]]
      [] s = "2024-1-15"  -> [ok |-> TRUE, v |-> [y |-> 2024, m |-> 1, d |-> 15]]
      [] s = "2024-01-16" -> [ok |-> TRUE, v |-> [y |-> 2024, m |-> 1, d |-> 16]]
      [] s = "1985-03-15" -> [ok |-> TRUE, v |-> [y |-> 1985, m |-> 3, d |-> 15]]
      [] OTHER            -> [ok |-> FALSE]

\* date.isoformat() and str(date)
IsoDate(dt) ==
    CASE dt = [y |-> 2024, m |-> 1, d |-> 15] -> "2024-01-15"
      [] dt = [y |-> 2024, m |-> 1, d |-> 16] -> "2024-01-16"
      [] dt = [y |-> 1985, m |-> 3, d |-> 15] -> "1985-03-15"

\* datetime.strptime(s, '%H:%M').time()
ParseTimeHM(s) ==
    CASE s = "09:00" -> [ok |-> TRUE, v |-> [h |-> 9, mi |-> 0]]
      [] s = "11:00" -> [ok |-> TRUE, v |-> [h |-> 11, mi |-> 0]]
      [] OTHER       -> [ok |-> FALSE]

\* datetime.strptime(s, '%H:%M:%S').time()
ParseTimeHMS(s) ==
    CASE s = "09:00:00" -> [ok |-> TRUE, v |-> [h |-> 9, mi |-> 0]]
      [] s = "10:00:00" -> [ok |-> TRUE, v |-> [h |-> 10, mi |-> 0]]
      [] s = "11:00:00" -> [ok |-> TRUE, v |-> [h |-> 11, mi |-> 0]]
      [] s = "12:00:00" -> [ok |-> TRUE, v |-> [h |-> 12, mi |-> 0]]
      [] OTHER          -> [ok |-> FALSE]

\* time.isoformat() and str(time)
IsoTime(t) ==
    CASE t = [h |-> 9, mi |-> 0]  -> "09:00:00"
      [] t = [h |-> 10, mi |-> 0] -> "10:00:00"
      [] t = [h |-> 11, mi |-> 0] -> "11:00:00"
      [] t = [h |-> 12, mi |-> 0] -> "12:00:00"

----------------------------------------------------------------------------
(* Storage after init_db() and seed_database(): a cut of the seed rows *)

Doctors ==
    << [name |-> "Dr. Maria Silva", specialty |-> "Cardiologia"],
       [name |-> "Dr. João Santos", specialty |-> "Dermatologia"] >>

SeedPatients ==
    << [name |-> "Pedro Oliveira", email |-> "pedro@email.com", phone |-> "(11) 98888-0001",
        cpf |-> "123.456.789-01", birth_date |-> [y |-> 1985, m |-> 3, d |-> 15]] >>

SeedSchedules ==
    << [doctor_id |-> 1, date |-> [y |-> 2024, m |-> 1, d |-> 15],
        start_time |-> [h |-> 9, mi |-> 0], end_time |-> [h |-> 10, mi |-> 0],
        is_available |-> "true"],
       [doctor_id |-> 2, date |-> [y |-> 2024, m |-> 1, d |-> 16],
        start_time |-> [h |-> 11, mi |-> 0], end_time |-> [h |-> 12, mi |-> 0],
        is_available |-> "true"] >>

\* Schedule.to_dict()
ScheduleToDict(id, s) ==
    [id |-> id, doctor_id |-> s.doctor_id, date |-> IsoDate(s.date),
     start_time |-> IsoTime(s.start_time), end_time |-> IsoTime(s.end_time),
     is_available |-> s.is_available]

\* query.all(): the ids of the matching rows, in id order.
RowIds(matching) == SortedSeq(matching)

\* query.first(): the first matching id, 0 for None.
FirstId(matching) ==
    IF matching = {} THEN 0 ELSE RowIds(matching)[1]

\* The schedule row an appointment refers to: same doctor, date and start time.
ScheduleOf(scheds, a) ==
    LET Same(s) == /\ s.doctor_id = a.doctor_id
                   /\ s.date = a.appointment_date
                   /\ s.start_time = a.appointment_time
    IN FirstId({row \in DOMAIN scheds : Same(scheds[row])})

----------------------------------------------------------------------------
(* services/cache_service.py *)

\* Order of the keyword names under sorted(kwargs.items()).
KwargOrder == <<"date", "doctor_id">>

\* str(v) of the values formatted into a key.
StrInt(n) == CASE n = 1 -> "1" [] n = 2 -> "2" [] n = 3 -> "3" [] OTHER -> "n"

\* Parameter texts longer than the 200-character key limit.
LongTexts == {"2024-01-15 ...(250 characters)"}

\* hashlib.md5(key_data.encode()).hexdigest()[:8], one digest per key text.
Md5Hex8(key_data) == <<"md5[:8]", key_data>>

\* The position of a parameter name in sorted order.
KwargRank(name) == CHOOSE i \in DOMAIN KwargOrder : KwargOrder[i] = name

\* The keyword arguments left in the order the caller passed them.
kwargs_as_passed(kwargs) == kwargs

\* sorted(kwargs.items()): kwargs is the sequence of <<name, text>> pairs in the
\* order the caller passed them; names are distinct.
sorted_kwargs(kwargs) ==
    LET ranks == SortedSeq({KwargRank(kwargs[i][1]) : i \in DOMAIN kwargs})
    IN [i \in 1..Len(ranks) |->
           CHOOSE item \in {kwargs[j] : j \in DOMAIN kwargs} : KwargRank(item[1]) = ranks[i]]

\* CacheService._generate_cache_key
generate_cache_key(prefix, kwargs) ==
    LET key_data == <<prefix>> \o sorted_kwargs(kwargs)
    IN IF \E i \in DOMAIN kwargs : kwargs[i][2] \in LongTexts
       THEN <<prefix, <<"hash", Md5Hex8(key_data)>>>>
       ELSE key_data

\* The key both get_ and set_available_schedules build:
\* date=date or "all", doctor_id=doctor_id or "all"  (None, "" and 0 are falsy).
ScheduleKey(date, doctor_id) ==
    generate_cache_key("schedules",
        << <<"date", IF date = "" THEN "all" ELSE date>>,
           <<"doctor_id", IF doctor_id = 0 THEN "all" ELSE StrInt(doctor_id)>> >>)

\* json.dumps(..., default=str) / json.loads of the wrapper object.
JsonDumps(obj) == [json |-> obj]
JsonLoads(text) == text.json

Miss == [hit |-> FALSE]

\* A lookup that builds its key from the date alone, unlike the code's; the
\* round trip C10 tells it apart from cache_get_available_schedules.
cache_get_ignoring_doctor(store, mode, date, doctor_id) ==
    IF mode # "up" THEN Miss
    ELSE LET cache_key == ScheduleKey(date, 0)
         IN IF cache_key \in DOMAIN store
            THEN [hit |-> TRUE, value |-> JsonLoads(store[cache_key])]
            ELSE Miss

\* CacheService.get_available_schedules
cache_get_available_schedules(store, mode, date, doctor_id) ==
    IF mode # "up" THEN Miss
    ELSE LET cache_key == ScheduleKey(date, doctor_id)
         IN IF cache_key \in DOMAIN store
            THEN [hit |-> TRUE, value |-> JsonLoads(store[cache_key])]
            ELSE Miss

\* A set that writes whether or not the store answers, unlike the code's; C12
\* tells it apart from cache_set_available_schedules.
cache_set_ignoring_mode(store, mode, scheds, date, doctor_id) ==
    LET cache_key == ScheduleKey(date, doctor_id)
        cache_data == [schedules |-> scheds, cached_at |-> "now",
                       total_count |-> Len(scheds)]
    IN Put(store, cache_key, JsonDumps(cache_data))

\* CacheService.set_available_schedules: the store after the call.
cache_set_available_schedules(store, mode, scheds, date, doctor_id) ==
    IF mode # "up" THEN store
    ELSE LET cache_key == ScheduleKey(date, doctor_id)
             cache_data == [schedules |-> scheds, cached_at |-> "now",
                            total_count |-> Len(scheds)]
         IN Put(store, cache_key, JsonDumps(cache_data))

\* Redis KEYS pattern over the keys of the store.
KeyMatches(key, pattern) ==
    CASE pattern.kind = "prefix"    -> key[1] = pattern.prefix
      [] pattern.kind = "doctor_id" ->
            /\ key[1] = "schedules"
            /\ \E i \in 2..Len(key) : key[i] = <<"doctor_id", pattern.value>>
      [] pattern.kind = "date"      ->
            /\ key[1] = "schedules"
            /\ \E i \in 2..Len(key) : key[i] = <<"date", pattern.value>>

\* An invalidation without the broad "schedules:*" pattern, unlike the code's;
\* C8 tells it apart from invalidate_schedule_cache.
invalidate_only_affected(store, mode, doctor_id, date) ==
    IF mode # "up" THEN store
    ELSE LET patterns ==
                 (IF doctor_id # 0
                  THEN {[kind |-> "doctor_id", value |-> StrInt(doctor_id)]} ELSE {})
                 \cup (IF date # ""
                       THEN {[kind |-> "date", value |-> date]} ELSE {})
             gone == {k \in DOMAIN store : \E p \in patterns : KeyMatches(k, p)}
         IN Without(store, gone)

\* An invalidation that deletes every key the store holds, whatever its namespace.
invalidate_every_key(store, mode, doctor_id, date) ==
    IF mode # "up" THEN store ELSE EmptyDict

\* CacheService.invalidate_schedule_cache: the store after the call.
invalidate_schedule_cache(store, mode, doctor_id, date) ==
    IF mode # "up" THEN store
    ELSE LET patterns ==
                 {[kind |-> "prefix", prefix |-> "schedules"]}
                 \cup (IF doctor_id # 0
                       THEN {[kind |-> "doctor_id", value |-> StrInt(doctor_id)]} ELSE {})
                 \cup (IF date # ""
                       THEN {[kind |-> "date", value |-> date]} ELSE {})
             gone == {k \in DOMAIN store : \E p \in patterns : KeyMatches(k, p)}
         IN Without(store, gone)

----------------------------------------------------------------------------
(* Available schedules joined with their doctor, as both read paths build them *)

\* The enriched dicts of the available schedules matching the filters
\* (filter_date: a date object or "" for none; doctor_id: 0 for none).
AvailableDicts(scheds, has_date, filter_date, doctor_id) ==
    LET Keep(s) == /\ s.is_available = "true"
                   /\ (has_date => s.date = filter_date)
                   /\ (doctor_id # 0 => s.doctor_id = doctor_id)
        ids == RowIds({row \in DOMAIN scheds : Keep(scheds[row])})
    IN [i \in 1..Len(ids) |->
           LET d == ScheduleToDict(ids[i], scheds[ids[i]])
           IN [id |-> d.id, doctor_id |-> d.doctor_id, date |-> d.date,
               start_time |-> d.start_time, end_time |-> d.end_time,
               is_available |-> d.is_available,
               doctor_name |-> Doctors[d.doctor_id].name,
               doctor_specialty |-> Doctors[d.doctor_id].specialty]]

\* The request handled last and its response: the handler, the response's
\* action_taken (for a REST handler, its outcome), the HTTP status, the success
\* field, what the response carries, and the user_id the agent request carried.
Reply(op, action_taken, status, data) ==
    [op |-> op, action_taken |-> action_taken, status |-> status, success |-> TRUE,
     data |-> data, user_id |-> ""]

----------------------------------------------------------------------------
(* REST endpoints of app.py.  db_fails: the storage raises on this request's *)
(* first query or commit.                                                    *)

\* int(doctor_id_param) if doctor_id_param else None  (0 stands for None).
IntOf(text) == CASE text = "1" -> 1 [] text = "2" -> 2 [] OTHER -> 0

\* The (date, doctor_id) query strings the availability endpoint is called with.
AvailabilityQueries ==
    { [date |-> "", doctor_id |-> "0"],
      [date |-> "2024-01-15", doctor_id |-> "1"],
      [date |-> "15/01/2024", doctor_id |-> ""],
      [date |-> "2024-01-15 ...(250 characters)", doctor_id |-> ""] }

\* GET /schedules/available
get_available_schedules(q, db_fails) ==
    LET date_param == q.date
        doctor_id == IntOf(q.doctor_id)
        cached == cache_get_available_schedules(redis_store, redis_mode, date_param, doctor_id)
        parsed == IF date_param # "" THEN ParseDate(date_param) ELSE [ok |-> TRUE, v |-> ""]
        found == AvailableDicts(schedules, date_param # "", parsed.v, doctor_id)
    IN /\ UNCHANGED <<inflight, patients, appointments, schedules, user_sessions, redis_mode>>
       /\ IF cached.hit
          THEN /\ redis_store' = redis_store
               /\ reply' = Reply("get_available_schedules", "cache_hit", 200,
                                 [date |-> date_param, doctor_id |-> doctor_id,
                                  schedules |-> cached.value.schedules])
          ELSE IF ~parsed.ok
          THEN /\ redis_store' = redis_store
               /\ reply' = Reply("get_available_schedules", "invalid_date", 400, EmptyDict)
          ELSE IF db_fails
          THEN /\ redis_store' = redis_store
               /\ reply' = Reply("get_available_schedules", "unhandled_error", 500, EmptyDict)
          ELSE /\ redis_store' = cache_set_available_schedules(redis_store, redis_mode,
                                                                found, date_param, doctor_id)
               /\ reply' = Reply("get_available_schedules", "cache_miss", 200,
                                 [date |-> date_param, doctor_id |-> doctor_id,
                                  schedules |-> found])

\* The JSON bodies POST /appointments is called with.
CreateRequests ==
    { [patient_id |-> 1, doctor_id |-> 1, appointment_date |-> "2024-01-15",
       appointment_time |-> "09:00"],
      [patient_id |-> 1, doctor_id |-> 1, appointment_date |-> "15/01/2024",
       appointment_time |-> "09:00"],
      [patient_id |-> 1, doctor_id |-> 1, appointment_date |-> "2024-01-15"] }

RequiredFields == {"patient_id", "doctor_id", "appointment_date", "appointment_time"}

\* POST /appointments
create_appointment(data, db_fails) ==
    LET date == ParseDate(data.appointment_date)
        time == ParseTimeHM(data.appointment_time)
        Free(s) == /\ s.doctor_id = data.doctor_id
                   /\ s.date = date.v
                   /\ s.start_time = time.v
                   /\ s.is_available = "true"
        schedule == FirstId({row \in DOMAIN schedules : Free(schedules[row])})
        appointment == [patient_id |-> data.patient_id, doctor_id |-> data.doctor_id,
                        appointment_date |-> date.v, appointment_time |-> time.v,
                        status |-> "scheduled"]
        Same == /\ UNCHANGED <<appointments, schedules, redis_store>>
    IN /\ UNCHANGED <<inflight, patients, user_sessions, redis_mode>>
       /\ IF ~(RequiredFields \subseteq DOMAIN data)
          THEN Same /\ reply' = Reply("create_appointment", "missing_field", 400, EmptyDict)
          ELSE IF ~date.ok \/ ~time.ok \/ db_fails
          THEN Same /\ reply' = Reply("create_appointment", "error", 500, EmptyDict)
          ELSE IF schedule = 0
          THEN Same /\ reply' = Reply("create_appointment", "slot_not_available", 400, EmptyDict)
          ELSE /\ Len(appointments) < MaxAppointments
               /\ appointments' = Append(appointments, appointment)
               /\ schedules' = [schedules EXCEPT ![schedule].is_available = "false"]
               /\ redis_store' = invalidate_schedule_cache(redis_store, redis_mode,
                                     data.doctor_id, IsoDate(date.v))
               /\ reply' = Reply("create_appointment", "created", 201,
                                 [appointment_id |-> Len(appointments) + 1,
                                  schedule_id |-> schedule,
                                  doctor_id |-> data.doctor_id, date |-> IsoDate(date.v)])

\* cancel_appointment committing the status before the slot is looked up, the
\* slot flag left as it was.
cancel_appointment_status_only(appointment_id, db_fails) ==
    /\ UNCHANGED <<inflight, patients, user_sessions, redis_mode, schedules, redis_store>>
    /\ appointment_id \in DOMAIN appointments
    /\ appointments' = [appointments EXCEPT ![appointment_id].status = "cancelled"]
    /\ reply' = Reply("cancel_appointment", IF db_fails THEN "error" ELSE "cancelled",
                      IF db_fails THEN 500 ELSE 200, EmptyDict)

\* DELETE /appointments/<appointment_id>
cancel_appointment(appointment_id, db_fails) ==
    LET Same == UNCHANGED <<appointments, schedules, redis_store>>
    IN /\ UNCHANGED <<inflight, patients, user_sessions, redis_mode>>
       /\ IF db_fails
          THEN Same /\ reply' = Reply("cancel_appointment", "error", 500, EmptyDict)
          ELSE IF appointment_id \notin DOMAIN appointments
          THEN Same /\ reply' = Reply("cancel_appointment", "not_found", 404, EmptyDict)
          ELSE LET appointment == appointments[appointment_id]
                   schedule == ScheduleOf(schedules, appointment)
               IN /\ appointments' = [appointments EXCEPT ![appointment_id].status = "cancelled"]
                  /\ schedules' = IF schedule # 0
                                  THEN [schedules EXCEPT ![schedule].is_available = "true"]
                                  ELSE schedules
                  /\ redis_store' = invalidate_schedule_cache(redis_store, redis_mode,
                                        appointment.doctor_id,
                                        IsoDate(appointment.appointment_date))
                  /\ reply' = Reply("cancel_appointment", "cancelled", 200,
                                    [appointment_id |-> appointment_id,
                                     schedule_id |-> schedule,
                                     doctor_id |-> appointment.doctor_id,
                                     date |-> IsoDate(appointment.appointment_date)])

\* POST /cache/clear: CacheService.clear_all_cache (FLUSHDB)
clear_cache ==
    /\ UNCHANGED <<inflight, patients, appointments, schedules, user_sessions, redis_mode>>
    /\ IF redis_mode = "up"
       THEN redis_store' = EmptyDict /\ reply' = Reply("clear_cache", "cleared", 200, EmptyDict)
       ELSE redis_store' = redis_store
            /\ reply' = Reply("clear_cache", "failed", 500, EmptyDict)

----------------------------------------------------------------------------
(* The cache store's own behaviour *)

NoReply == Reply("none", "", 0, EmptyDict)

\* The TTL given to SETEX runs out for one key.
Expire(key) ==
    /\ key \in DOMAIN redis_store
    /\ redis_store' = Without(redis_store, {key})
    /\ reply' = NoReply
    /\ UNCHANGED <<inflight, patients, appointments, schedules, user_sessions, redis_mode>>

\* The store stops answering: every call on redis_client raises.
RedisFails ==
    /\ redis_mode = "up"
    /\ redis_mode' = "down"
    /\ reply' = NoReply
    /\ UNCHANGED <<inflight, patients, appointments, schedules, user_sessions, redis_store>>

\* The store answers again, with the keys it still holds.
RedisRecovers ==
    /\ redis_mode = "down"
    /\ redis_mode' = "up"
    /\ reply' = NoReply
    /\ UNCHANGED <<inflight, patients, appointments, schedules, user_sessions, redis_store>>

----------------------------------------------------------------------------
(* The conversational agent: sessions *)

IdleSession == [state |-> "idle", data |-> EmptyDict, step |-> 0]

\* str(user_id).strip()
Strip(text) ==
    CASE text = " default_user " -> "default_user"
      [] text = " alice "        -> "alice"
      [] text = "   "            -> ""
      [] OTHER                   -> text

\* NormalizeUserId without the strip().
NormalizeUserId_untrimmed(user_id) ==
    IF user_id \in {"anonymous", "", "null", "undefined"} THEN "default_user" ELSE user_id

\* app.py lines 341-344
NormalizeUserId(user_id) ==
    LET normalized_user_id == Strip(user_id)
    IN IF normalized_user_id = ""
          \/ normalized_user_id \in {"anonymous", "", "null", "undefined"}
       THEN "default_user"
       ELSE normalized_user_id

\* get_user_session: the session map after the call (the session is sessions[user_id]).
get_user_session(sessions, user_id) ==
    IF user_id \notin DOMAIN sessions THEN Put(sessions, user_id, IdleSession) ELSE sessions

\* A reset that puts every stored session back to idle, not only the caller's.
reset_every_session(sessions, user_id) == [k \in DOMAIN sessions |-> IdleSession]

\* reset_user_session: the session map after the call.
reset_user_session(sessions, user_id) ==
    IF user_id \in DOMAIN sessions THEN Put(sessions, user_id, IdleSession) ELSE sessions

----------------------------------------------------------------------------
(* Messages.  A message is described by what the regular expressions of    *)
(* analyze_intent, is_user_data and the extract_* functions find in it.    *)

Msg(text, groups, number, user_data, date_shape, doctor_name) ==
    [text |-> text, is_str |-> TRUE, groups |-> groups, number |-> number,
     user_data |-> user_data, date_shape |-> date_shape, doctor_name |-> doctor_name,
     has_date |-> FALSE, preferred_date |-> ""]

Messages ==
    { Msg("Quais horários disponíveis?", {"schedule_request"}, 0, EmptyDict, FALSE, ""),
      Msg("Quero cancelar", {"cancel"}, 0, EmptyDict, FALSE, ""),
      Msg("Quero consulta com Dr. Maria Silva", {"book"}, 0, EmptyDict, FALSE, "Maria Silva"),
      Msg("Pedro Oliveira", {}, 0, [name |-> "Pedro Oliveira"], FALSE, ""),
      Msg("987.654.321-00, ana@email.com, (11) 97777-0002", {}, 0,
          [cpf |-> "987.654.321-00", email |-> "ana@email.com",
           phone |-> "(11) 97777-0002"], FALSE, ""),
      Msg("15/03/1985", {}, 0, [birth_date |-> "1985-03-15"], TRUE, ""),
      [Msg("<JSON number 123>", {}, 0, EmptyDict, FALSE, "") EXCEPT !.is_str = FALSE] }

\* is_user_data: one of the CPF, email, phone, date or name shapes is found.
is_user_data(m) ==
    \/ Has(m.user_data, "cpf")
    \/ Has(m.user_data, "email")
    \/ Has(m.user_data, "phone")
    \/ m.date_shape
    \/ Has(m.user_data, "name")

\* analyze_intent with the booking group tested before the payment group.
analyze_intent_book_first(m) ==
    IF "greeting" \in m.groups THEN "greeting"
    ELSE IF "book" \in m.groups THEN "book_appointment"
    ELSE IF "payment" \in m.groups THEN "payment_info"
    ELSE IF "schedule_request" \in m.groups THEN "schedule_request"
    ELSE IF "cancel" \in m.groups THEN "cancel_appointment"
    ELSE IF "number" \in m.groups THEN "number_selection"
    ELSE IF is_user_data(m) THEN "user_data"
    ELSE "unknown"

\* analyze_intent: the pattern groups in the order the loops test them.
analyze_intent(m) ==
    IF "greeting" \in m.groups THEN "greeting"
    ELSE IF "payment" \in m.groups THEN "payment_info"
    ELSE IF "schedule_request" \in m.groups THEN "schedule_request"
    ELSE IF "cancel" \in m.groups THEN "cancel_appointment"
    ELSE IF "book" \in m.groups THEN "book_appointment"
    ELSE IF "number" \in m.groups THEN "number_selection"
    ELSE IF is_user_data(m) THEN "user_data"
    ELSE "unknown"

extract_number_from_message(m) == m.number

extract_user_data(m) == m.user_data

extract_doctor_name_from_message(m) == m.doctor_name

\* Doctor.name.ilike('%' + doctor_name + '%')
DoctorNameLike(name, doctor_name) ==
    \/ doctor_name = ""
    \/ <<name, doctor_name>> \in { <<"Dr. Maria Silva", "Maria Silva">>,
                                    <<"Dr. Maria Silva", "Maria">>,
                                    <<"Dr. João Santos", "Santos">> }

\* Patient.name.ilike('%' + name + '%')
PatientNameLike(name, typed) == name = typed

\* get_step_message: step_messages.get(step, step_messages[1])
get_step_message(step) ==
    CASE step = 2 -> "awaiting_cpf"
      [] step = 3 -> "awaiting_email"
      [] step = 4 -> "awaiting_phone"
      [] step = 5 -> "awaiting_birth_date"
      [] OTHER    -> "awaiting_name"

----------------------------------------------------------------------------
(* The conversational agent: one turn.  A world w is the storage and the   *)
(* cache a handler reads and leaves: [patients, appointments, schedules,    *)
(* store].                                                                  *)

World == [patients |-> patients, appointments |-> appointments,
          schedules |-> schedules, store |-> redis_store]

\* get_available_schedules_summary: the cache after the call (its text goes into the reply).
get_available_schedules_summary(w, mode, db_fails) ==
    LET cached == cache_get_available_schedules(w.store, mode, "", 0)
    IN IF cached.hit \/ db_fails
       THEN w.store
       ELSE cache_set_available_schedules(w.store, mode,
                AvailableDicts(w.schedules, FALSE, "", 0), "", 0)

PatientFields == {"name", "cpf", "email", "phone", "birth_date"}

\* complete_appointment_booking: [ok, w, action_taken, data]; both outcomes end with
\* reset_user_session(user_id), which the caller applies.
complete_appointment_booking(session, w, mode, db_fails) ==
    LET data == session.data
        failed == [ok |-> FALSE, w |-> w, action_taken |-> "booking_error", data |-> EmptyDict]
    IN IF ~(PatientFields \subseteq DOMAIN data) \/ ~Has(data, "selected_schedule") \/ db_fails
       THEN failed
       ELSE
       LET birth == ParseDate(data.birth_date)
           patient_data == [name |-> data.name, cpf |-> data.cpf, email |-> data.email,
                            phone |-> data.phone, birth_date |-> birth.v]
           SameCpf(p) == p.cpf = patient_data.cpf
           existing_patient == FirstId({row \in DOMAIN w.patients : SameCpf(w.patients[row])})
           patient_id == IF existing_patient # 0 THEN existing_patient
                         ELSE Len(w.patients) + 1
           new_patients == IF existing_patient # 0
                           THEN [w.patients EXCEPT ![existing_patient] = patient_data]
                           ELSE Append(w.patients, patient_data)
           \* patients.email and patients.cpf are UNIQUE columns
           unique == \A i, j \in DOMAIN new_patients :
                        i # j => /\ new_patients[i].email # new_patients[j].email
                                 /\ new_patients[i].cpf # new_patients[j].cpf
           selected_schedule == data.selected_schedule
           schedule_id == selected_schedule.id
           date == ParseDate(selected_schedule.date)
           time == ParseTimeHMS(selected_schedule.start_time)
           appointment == [patient_id |-> patient_id,
                           doctor_id |-> selected_schedule.doctor_id,
                           appointment_date |-> date.v, appointment_time |-> time.v,
                           status |-> "scheduled"]
       IN IF ~birth.ok \/ ~unique \/ ~date.ok \/ ~time.ok
             \/ schedule_id \notin DOMAIN w.schedules
          THEN failed
          ELSE [ok |-> TRUE,
                w |-> [patients |-> new_patients,
                       appointments |-> Append(w.appointments, appointment),
                       schedules |-> [w.schedules EXCEPT ![schedule_id].is_available = "false"],
                       store |-> invalidate_schedule_cache(w.store, mode,
                                     selected_schedule.doctor_id, selected_schedule.date)],
                action_taken |-> "appointment_booked",
                data |-> [appointment_id |-> Len(w.appointments) + 1,
                          patient |-> patient_data,
                          schedule |-> selected_schedule]]

\* What one turn leaves: the (mutated) session object, the world, whether
\* reset_user_session(user_id) was called, whether an exception reached the
\* endpoint's except clause, and the reply.
Out(session, w, reset, raised, action_taken, data) ==
    [session |-> session, w |-> w, reset |-> reset, raised |-> raised,
     action_taken |-> action_taken, data |-> data]

WithSummary(w, mode, db_fails) ==
    [w EXCEPT !.store = get_available_schedules_summary(w, mode, db_fails)]

\* HandleIdle starting the cancellation under a state name no branch handles.
HandleIdle_misspelt_state(session, m, w, mode, db_fails) ==
    IF analyze_intent(m) = "cancel_appointment"
    THEN Out([session EXCEPT !.state = "canceling_appointment", !.step = 1],
             w, FALSE, FALSE, "cancel_flow_started", EmptyDict)
    ELSE Out(session, w, FALSE, FALSE, "greeting", EmptyDict)

\* HandleIdle starting the cancellation without setting the step.
HandleIdle_cancel_keeps_step(session, m, w, mode, db_fails) ==
    IF analyze_intent(m) = "cancel_appointment"
    THEN Out([session EXCEPT !.state = "cancelling_appointment"],
             w, FALSE, FALSE, "cancel_flow_started", EmptyDict)
    ELSE Out(session, w, FALSE, FALSE, "greeting", EmptyDict)

\* HandleIdle pinning the first slot of the named doctor or date without the
\* filter Schedule.is_available == 'true'.
HandleIdle_pinning_taken_slot(session, m, w, mode, db_fails) ==
    LET doctor_name == extract_doctor_name_from_message(m)
        Keep(s) == /\ DoctorNameLike(Doctors[s.doctor_id].name, doctor_name)
                   /\ (m.has_date => s.date = m.preferred_date)
        found == RowIds({row \in DOMAIN w.schedules : Keep(w.schedules[row])})
    IN IF analyze_intent(m) = "book_appointment" /\ (doctor_name # "" \/ m.has_date)
          /\ found # <<>>
       THEN LET row == w.schedules[found[1]]
            IN Out([state |-> "registering_patient",
                    data |-> Put(session.data, "selected_schedule",
                                 [id |-> found[1], date |-> IsoDate(row.date),
                                  start_time |-> IsoTime(row.start_time),
                                  end_time |-> IsoTime(row.end_time),
                                  doctor_name |-> Doctors[row.doctor_id].name,
                                  doctor_specialty |-> Doctors[row.doctor_id].specialty,
                                  doctor_id |-> row.doctor_id]),
                    step |-> 1],
                   w, FALSE, FALSE, "schedule_selected", EmptyDict)
       ELSE Out(session, w, FALSE, FALSE, "no_schedules_found", EmptyDict)

\* HandleIdle keeping what extract_user_data finds in the session of an idle user.
HandleIdle_storing_user_data(session, m, w, mode, db_fails) ==
    Out([session EXCEPT !.data = Update(session.data, extract_user_data(m))],
        w, FALSE, FALSE, "greeting", EmptyDict)

\* HandleIdle answering a booking request with a numbered list to choose from.
HandleIdle_listing_choices(session, m, w, mode, db_fails) ==
    IF analyze_intent(m) = "book_appointment"
    THEN Out([state |-> "selecting_schedule",
              data |-> Put(session.data, "schedules", <<>>),
              step |-> 0],
             w, FALSE, FALSE, "show_availability", EmptyDict)
    ELSE Out(session, w, FALSE, FALSE, "greeting", EmptyDict)

\* app.py lines 362-455
HandleIdle(session, m, w, mode, db_fails) ==
    LET intent == analyze_intent(m)
    IN CASE intent = "greeting" -> Out(session, w, FALSE, FALSE, "greeting", EmptyDict)
         [] intent = "payment_info" ->
                Out(session, w, FALSE, FALSE, "payment_info_provided", EmptyDict)
         [] intent = "schedule_request" ->
                Out(session, WithSummary(w, mode, db_fails), FALSE, FALSE,
                    "show_available_schedules", EmptyDict)
         [] intent = "book_appointment" ->
                LET doctor_name == extract_doctor_name_from_message(m)
                    Keep(s) == /\ s.is_available = "true"
                               /\ DoctorNameLike(Doctors[s.doctor_id].name, doctor_name)
                               /\ (m.has_date => s.date = m.preferred_date)
                    found == RowIds({row \in DOMAIN w.schedules : Keep(w.schedules[row])})
                IN IF doctor_name # "" \/ m.has_date
                   THEN IF db_fails
                        THEN Out(session, w, FALSE, TRUE, "", EmptyDict)
                        ELSE IF found # <<>>
                        THEN LET row == w.schedules[found[1]]
                                 schedule_info ==
                                     [id |-> found[1], date |-> IsoDate(row.date),
                                      start_time |-> IsoTime(row.start_time),
                                      end_time |-> IsoTime(row.end_time),
                                      doctor_name |-> Doctors[row.doctor_id].name,
                                      doctor_specialty |-> Doctors[row.doctor_id].specialty,
                                      doctor_id |-> row.doctor_id]
                             IN Out([state |-> "registering_patient",
                                     data |-> Put(session.data, "selected_schedule", schedule_info),
                                     step |-> 1],
                                    w, FALSE, FALSE, "schedule_selected", EmptyDict)
                        ELSE Out(session, WithSummary(w, mode, db_fails), FALSE, FALSE,
                                 "no_schedules_found", EmptyDict)
                   ELSE Out(session, WithSummary(w, mode, db_fails), FALSE, FALSE,
                            "show_availability", EmptyDict)
         [] intent = "cancel_appointment" ->
                Out([session EXCEPT !.state = "cancelling_appointment", !.step = 1],
                    w, FALSE, FALSE, "cancel_flow_started", EmptyDict)
         [] intent = "number_selection" ->
                Out(session, w, FALSE, FALSE, "number_without_context", EmptyDict)
         [] OTHER -> Out(session, w, FALSE, FALSE, "greeting", EmptyDict)

\* HandleSelectingSchedule clamping an out-of-range number into the list.
HandleSelectingSchedule_clamping(session, m, w) ==
    LET n == extract_number_from_message(m)
        scheds == IF Has(session.data, "schedules") THEN session.data.schedules ELSE <<>>
        index == IF n < 1 THEN 1 ELSE IF n > Len(scheds) THEN Len(scheds) ELSE n
    IN IF analyze_intent(m) = "number_selection" /\ scheds # <<>>
       THEN Out([state |-> "registering_patient",
                 data |-> Put(session.data, "selected_schedule", scheds[index]),
                 step |-> 1],
                w, FALSE, FALSE, "schedule_selected", EmptyDict)
       ELSE Out(session, w, FALSE, FALSE, "invalid_selection", EmptyDict)

\* app.py lines 457-491
HandleSelectingSchedule(session, m, w) ==
    LET intent == analyze_intent(m)
        selected_number == extract_number_from_message(m)
        scheds == IF Has(session.data, "schedules") THEN session.data.schedules ELSE <<>>
    IN IF intent = "number_selection"
       THEN IF selected_number # 0 /\ 1 <= selected_number /\ selected_number <= Len(scheds)
            THEN Out([state |-> "registering_patient",
                      data |-> Put(session.data, "selected_schedule", scheds[selected_number]),
                      step |-> 1],
                     w, FALSE, FALSE, "schedule_selected", EmptyDict)
            ELSE Out(session, w, FALSE, FALSE, "invalid_selection", EmptyDict)
       ELSE Out(session, w, FALSE, FALSE, "awaiting_selection", EmptyDict)

\* HandleRegisteringPatient advancing on any user_data message, whatever it holds.
HandleRegisteringPatient_any_field(session, m, w, mode, db_fails) ==
    IF analyze_intent(m) = "user_data"
    THEN Out([session EXCEPT !.data = Update(session.data, extract_user_data(m)),
                             !.step = IF session.step < 5 THEN session.step + 1 ELSE 5],
             w, FALSE, FALSE, "name_collected", EmptyDict)
    ELSE Out(session, w, FALSE, FALSE, get_step_message(session.step), EmptyDict)

\* HandleRegisteringPatient advancing on the expected field without keeping it.
HandleRegisteringPatient_dropping_data(session, m, w, mode, db_fails) ==
    LET user_data == extract_user_data(m)
        k == session.step
    IN IF /\ analyze_intent(m) = "user_data" /\ k \in 1..4
          /\ Has(user_data, <<"name", "cpf", "email", "phone">>[k])
       THEN Out([session EXCEPT !.step = k + 1], w, FALSE, FALSE,
                <<"name_collected", "cpf_collected", "email_collected", "phone_collected">>[k],
                EmptyDict)
       ELSE Out(session, w, FALSE, FALSE, get_step_message(session.step), EmptyDict)

\* HandleRegisteringPatient moving past every step whose field the message carries.
HandleRegisteringPatient_skipping_ahead(session, m, w, mode, db_fails) ==
    LET user_data == extract_user_data(m)
        stored == [session EXCEPT !.data = Update(session.data, user_data)]
        order == <<"name", "cpf", "email", "phone">>
        reached == CHOOSE k \in session.step..5 :
                      /\ \A j \in session.step..(k - 1) : Has(user_data, order[j])
                      /\ k = 5 \/ ~Has(user_data, order[k])
    IN IF analyze_intent(m) = "user_data" /\ session.step \in 1..4 /\ reached > session.step
       THEN Out([stored EXCEPT !.step = reached], w, FALSE, FALSE,
                <<"name_collected", "cpf_collected", "email_collected",
                  "phone_collected">>[reached - 1], EmptyDict)
       ELSE Out(session, w, FALSE, FALSE, get_step_message(session.step), EmptyDict)

\* app.py lines 493-539
HandleRegisteringPatient(session, m, w, mode, db_fails) ==
    LET intent == analyze_intent(m)
        user_data == extract_user_data(m)
        stored == [session EXCEPT !.data = Update(session.data, user_data)]
        Advance(field, action_taken) ==
            Out([stored EXCEPT !.step = session.step + 1], w, FALSE, FALSE,
                action_taken, EmptyDict)
    IN IF intent = "user_data"
       THEN CASE session.step = 1 /\ Has(user_data, "name") -> Advance("name", "name_collected")
              [] session.step = 2 /\ Has(user_data, "cpf") -> Advance("cpf", "cpf_collected")
              [] session.step = 3 /\ Has(user_data, "email") ->
                     Advance("email", "email_collected")
              [] session.step = 4 /\ Has(user_data, "phone") ->
                     Advance("phone", "phone_collected")
              [] session.step = 5 /\ Has(user_data, "birth_date") ->
                     LET done == complete_appointment_booking(stored, w, mode, db_fails)
                     IN Out(stored, done.w, TRUE, FALSE, done.action_taken, done.data)
              [] OTHER -> Out(stored, w, FALSE, FALSE, get_step_message(session.step), EmptyDict)
       ELSE Out(session, w, FALSE, FALSE, get_step_message(session.step), EmptyDict)

\* Appointment (models/appointment.py) declares columns only: it has no attribute
\* `schedule`, so reading apt.schedule raises AttributeError.
AppointmentHasSchedule == FALSE

\* app.py lines 541-659
HandleCancellingAppointment(session, m, w, db_fails) ==
    LET intent == analyze_intent(m)
        user_data == extract_user_data(m)
        selected_number == extract_number_from_message(m)
    IN IF intent = "user_data" /\ session.step = 1
       THEN IF Has(user_data, "name")
            THEN LET Named(p) == PatientNameLike(p.name, user_data.name)
                     patient == FirstId({row \in DOMAIN w.patients : Named(w.patients[row])})
                     Booked(a) == a.patient_id = patient /\ a.status = "scheduled"
                     found == RowIds({row \in DOMAIN w.appointments : Booked(w.appointments[row])})
                     with_patient == [session EXCEPT !.data = Put(session.data, "patient", patient)]
                     listed == [i \in 1..Len(found) |->
                                   LET s == w.schedules[ScheduleOf(w.schedules, w.appointments[found[i]])]
                                   IN [id |-> found[i], date |-> IsoDate(s.date),
                                       time |-> IsoTime(s.start_time),
                                       doctor |-> Doctors[s.doctor_id].name]]
                 IN IF db_fails THEN Out(session, w, FALSE, TRUE, "", EmptyDict)
                    ELSE IF patient = 0
                    THEN Out(session, w, TRUE, FALSE, "patient_not_found", EmptyDict)
                    ELSE IF found = <<>>
                    THEN Out(session, w, TRUE, FALSE, "no_appointments", EmptyDict)
                    ELSE IF ~AppointmentHasSchedule
                    THEN Out(with_patient, w, FALSE, TRUE, "", EmptyDict)
                    ELSE Out([with_patient EXCEPT
                                 !.data = Put(with_patient.data, "appointments", listed),
                                 !.step = 2],
                             w, FALSE, FALSE, "appointments_found", EmptyDict)
            ELSE Out(session, w, FALSE, FALSE, "awaiting_name", EmptyDict)
       ELSE IF intent = "number_selection" /\ session.step = 2
       THEN LET listed == IF Has(session.data, "appointments")
                          THEN session.data.appointments ELSE <<>>
            IN IF selected_number # 0 /\ 1 <= selected_number /\ selected_number <= Len(listed)
               THEN LET id == listed[selected_number].id
                        schedule == ScheduleOf(w.schedules, w.appointments[id])
                    IN IF db_fails THEN Out(session, w, FALSE, TRUE, "", EmptyDict)
                       ELSE IF id \notin DOMAIN w.appointments
                       THEN Out(session, w, TRUE, FALSE, "cancellation_error", EmptyDict)
                       ELSE IF ~AppointmentHasSchedule
                       THEN Out(session, w, FALSE, TRUE, "", EmptyDict)
                       ELSE Out(session,
                                [w EXCEPT !.appointments[id].status = "cancelled",
                                          !.schedules[schedule].is_available = "true"],
                                TRUE, FALSE, "appointment_cancelled",
                                [appointment_id |-> id, schedule_id |-> schedule])
               ELSE Out(session, w, FALSE, FALSE, "invalid_selection", EmptyDict)
       ELSE Out(session, w, FALSE, FALSE, "awaiting_input", EmptyDict)

\* The user_id values the endpoint is called with.
UserIds == {"default_user", "anonymous"}

\* The body of ai_agent_endpoint's try block (lines 349-666) on the session object.
HandleTurn(session, m, w, mode, db_fails) ==
    IF ~m.is_str
    THEN Out(session, w, FALSE, TRUE, "", EmptyDict)
    ELSE CASE session.state = "idle" -> HandleIdle(session, m, w, mode, db_fails)
           [] session.state = "selecting_schedule" -> HandleSelectingSchedule(session, m, w)
           [] session.state = "registering_patient" ->
                  HandleRegisteringPatient(session, m, w, mode, db_fails)
           [] session.state = "cancelling_appointment" ->
                  HandleCancellingAppointment(session, m, w, db_fails)
           [] OTHER -> Out(session, w, TRUE, FALSE, "greeting", EmptyDict)

\* POST /agent: ai_agent_endpoint handling {message: m, user_id: user_id}.
ai_agent_endpoint(user_id, m, db_fails) ==
    LET normalized_user_id == NormalizeUserId(user_id)
        sessions == get_user_session(user_sessions, normalized_user_id)
    IN /\ user_id # ""
       /\ \E out \in {HandleTurn(sessions[normalized_user_id], m, World, redis_mode, db_fails)} :
            LET mutated == Put(sessions, normalized_user_id, out.session)
            IN /\ Len(out.w.appointments) <= MaxAppointments
               /\ user_sessions' = IF out.reset \/ out.raised
                                   THEN reset_user_session(mutated, user_id)
                                   ELSE mutated
               /\ patients' = out.w.patients
               /\ appointments' = out.w.appointments
               /\ schedules' = out.w.schedules
               /\ redis_store' = out.w.store
               /\ redis_mode' = redis_mode
               /\ inflight' = inflight
               /\ reply' = IF out.raised
                           THEN [Reply("ai_agent_endpoint", "error_occurred", 500, EmptyDict)
                                    EXCEPT !.success = FALSE, !.user_id = user_id]
                           ELSE [Reply("ai_agent_endpoint", out.action_taken, 200, out.data)
                                    EXCEPT !.user_id = user_id]

----------------------------------------------------------------------------
(* The system *)

Init ==
    /\ patients = SeedPatients
    /\ appointments = <<>>
    /\ schedules = SeedSchedules
    /\ user_sessions = EmptyDict
    /\ redis_store = EmptyDict
    /\ redis_mode \in {"up", "none"}
    /\ reply = NoReply
    /\ inflight = NoRequests

Next ==
    \/ \E q \in AvailabilityQueries : get_available_schedules(q, FALSE)
    \/ \E d \in CreateRequests, f \in BOOLEAN : create_appointment(d, f)
    \/ \E id \in 1..MaxAppointments : cancel_appointment(id, FALSE)
    \/ \E u \in UserIds, m \in Messages, f \in BOOLEAN : ai_agent_endpoint(u, m, f)
    \/ clear_cache
    \/ \E k \in DOMAIN redis_store : Expire(k)
    \/ RedisFails
    \/ RedisRecovers

Spec == Init /\ [][Next]_vars

----------------------------------------------------------------------------
(* The cache service on its own: its three schedule operations called with  *)
(* every combination of parameters, absent ones ("" and 0) included.        *)

\* Bound on the number of keys the store holds in SpecCache.
MaxCacheKeys == 2

CacheDates == {"", "2024-01-15", "2024-01-15 ...(250 characters)"}

CacheDoctorIds == {0, 1}

\* Slot lists as the callers build them (Schedule.to_dict() plus the doctor fields).
SlotLists == { <<>>, AvailableDicts(SeedSchedules, FALSE, "", 0) }

\* cache_service.set_available_schedules(slots, date, doctor_id); action_taken is
\* the call's return value.
set_available_schedules(slots, date, doctor_id) ==
    /\ redis_store' = cache_set_available_schedules(redis_store, redis_mode, slots, date, doctor_id)
    /\ Cardinality(DOMAIN redis_store') <= MaxCacheKeys
    /\ reply' = Reply("set_available_schedules",
                      IF redis_mode = "up" THEN "True" ELSE "False", 0,
                      [schedules |-> slots, date |-> date, doctor_id |-> doctor_id])
    /\ UNCHANGED <<inflight, patients, appointments, schedules, user_sessions, redis_mode>>

\* cache_service.get_available_schedules(date, doctor_id)
get_cached_schedules(date, doctor_id) ==
    /\ reply' = Reply("get_available_schedules",
                      IF cache_get_available_schedules(redis_store, redis_mode, date, doctor_id).hit
                      THEN "cache_hit" ELSE "None", 0,
                      [date |-> date, doctor_id |-> doctor_id])
    /\ UNCHANGED <<inflight, patients, appointments, schedules, user_sessions, redis_store, redis_mode>>

\* cache_service.invalidate_schedule_cache(doctor_id, date)
invalidate(doctor_id, date) ==
    /\ redis_store' = invalidate_schedule_cache(redis_store, redis_mode, doctor_id, date)
    /\ reply' = Reply("invalidate_schedule_cache", "None", 0,
                      [date |-> date, doctor_id |-> doctor_id])
    /\ UNCHANGED <<inflight, patients, appointments, schedules, user_sessions, redis_mode>>

NextCache ==
    \/ \E l \in SlotLists, d \in CacheDates, id \in CacheDoctorIds :
           set_available_schedules(l, d, id)
    \/ \E d \in CacheDates, id \in CacheDoctorIds : get_cached_schedules(d, id)
    \/ \E d \in CacheDates, id \in CacheDoctorIds : invalidate(id, d)
    \/ \E k \in DOMAIN redis_store : Expire(k)
    \/ RedisFails
    \/ RedisRecovers

SpecCache == Init /\ [][NextCache]_vars

----------------------------------------------------------------------------
(* Conversations of senders whose user_id the endpoint rewrites, each kind  *)
(* of message being sent again and again.                                   *)

LiveUserIds == {"anonymous", " default_user "}

NextLive ==
    \E u \in LiveUserIds, m \in Messages, f \in BOOLEAN : ai_agent_endpoint(u, m, f)

SpecLive ==
    /\ Init
    /\ [][NextLive]_vars
    /\ \A u \in LiveUserIds, m \in Messages :
           WF_vars(\E f \in BOOLEAN : ai_agent_endpoint(u, m, f))

----------------------------------------------------------------------------
(* Properties *)

\* The slot (doctor, date, start time) an appointment row refers to.
SlotOf(a) == <<a.doctor_id, a.appointment_date, a.appointment_time>>

Scheduled == {i \in DOMAIN appointments : appointments[i].status = "scheduled"}

\* C1: in every reachable state each schedule slot (doctor, date, start time) is
\* referenced by at most one appointment whose status is 'scheduled'.
C1_OneScheduledPerSlot ==
    \A i, j \in Scheduled :
        SlotOf(appointments[i]) = SlotOf(appointments[j]) => i = j

\* C2: an appointment row is created only in a step in whose starting state the
\* row's slot exists and has the availability flag 'true'.
C2_CreatedOnlyWhenAvailable ==
    [][Len(appointments') > Len(appointments) =>
          LET created == appointments'[Len(appointments')]
              slot == ScheduleOf(schedules, created)
          IN slot # 0 /\ schedules[slot].is_available = "true"]_vars

\* C3: appointments and slot flags agree: every 'scheduled' appointment has its
\* slot's flag 'false', and every slot whose flag is 'false' is referenced by a
\* 'scheduled' appointment.
C3_AppointmentsAndFlagsAgree ==
    /\ \A i \in Scheduled :
           LET slot == ScheduleOf(schedules, appointments[i])
           IN slot # 0 /\ schedules[slot].is_available = "false"
    /\ \A slot \in DOMAIN schedules :
           schedules[slot].is_available = "false" =>
               \E i \in Scheduled : ScheduleOf(schedules, appointments[i]) = slot

\* C4: a turn in which complete_appointment_booking fails (the booking-error reply)
\* leaves patients, appointments and schedules exactly as they were, and after it
\* the session stored for the sender's normalized identifier is {idle, 0, {}}.
C4_FailedBookingLeavesNothing ==
    [][(reply'.op = "ai_agent_endpoint" /\ reply'.action_taken = "booking_error") =>
          /\ patients' = patients
          /\ appointments' = appointments
          /\ schedules' = schedules
          /\ user_sessions'[NormalizeUserId(reply'.user_id)] = IdleSession]_vars

\* C5: after a turn that raised an exception, the session stored for the sender's
\* normalized identifier is {idle, 0, {}} and the reply is the generic apology
\* with success = false (the endpoint answered; nothing propagated).
C5_ErrorResetsSession ==
    (reply.op = "ai_agent_endpoint" /\ reply.action_taken = "error_occurred") =>
        /\ reply.success = FALSE
        /\ user_sessions[NormalizeUserId(reply.user_id)] = IdleSession

\* C6: a step-5 turn whose booking succeeds commits the patient upsert, one new
\* 'scheduled' appointment for the pinned slot and that slot's flag 'false'
\* together, and after it the session stored for the sender's normalized
\* identifier is idle with step 0 and empty data.
C6_BookingCommitsAndResets ==
    [][(reply'.op = "ai_agent_endpoint" /\ reply'.action_taken = "appointment_booked") =>
          LET pinned == reply'.data.schedule
              booked == appointments'[Len(appointments')]
          IN /\ Len(appointments') = Len(appointments) + 1
             /\ booked.status = "scheduled"
             /\ ScheduleOf(schedules', booked) = pinned.id
             /\ schedules'[pinned.id].is_available = "false"
             /\ booked.patient_id \in DOMAIN patients'
             /\ patients'[booked.patient_id] = reply'.data.patient
             /\ user_sessions'[NormalizeUserId(reply'.user_id)] = IdleSession]_vars

\* C7: no session stays stuck: whatever state a session is in, it is idle again
\* later on, for senders whose user_id the endpoint rewrites too.
C7_SessionsReturnToIdle ==
    []<>(\A k \in DOMAIN user_sessions : user_sessions[k].state = "idle")

\* The doctor and the ISO date a committed booking or cancellation affected.
Affected ==
    IF reply.op = "ai_agent_endpoint" /\ reply.action_taken = "appointment_booked"
    THEN [doctor_id |-> reply.data.schedule.doctor_id, date |-> reply.data.schedule.date]
    ELSE IF reply.op = "ai_agent_endpoint"
    THEN [doctor_id |-> appointments[reply.data.appointment_id].doctor_id,
          date |-> IsoDate(appointments[reply.data.appointment_id].appointment_date)]
    ELSE [doctor_id |-> reply.data.doctor_id, date |-> reply.data.date]

Committed ==
    \/ reply.op = "create_appointment" /\ reply.action_taken = "created"
    \/ reply.op = "cancel_appointment" /\ reply.action_taken = "cancelled"
    \/ reply.op = "ai_agent_endpoint"
           /\ reply.action_taken \in {"appointment_booked", "appointment_cancelled"}

CachedFilters ==
    {<<q.date, IntOf(q.doctor_id)>> : q \in {r \in AvailabilityQueries :
                                                r.date = "" \/ ParseDate(r.date).ok}}

\* C9: whenever the cache store answers, the slot list stored under the key of a
\* (date, doctor) filter equals the slots storage marks available for that filter.
C9_CacheInSync ==
    redis_mode = "up" =>
        \A f \in CachedFilters :
            LET cached == cache_get_available_schedules(redis_store, redis_mode, f[1], f[2])
            IN cached.hit =>
                   cached.value.schedules =
                       AvailableDicts(schedules, f[1] # "",
                                      IF f[1] # "" THEN ParseDate(f[1]).v ELSE "", f[2])

\* C10: with the cache store available, right after set_available_schedules(list,
\* date, doctor_id) a get_available_schedules(date, doctor_id) returns a record
\* whose slot list is the list that was set, absent date and doctor_id included.
C10_SetThenGet ==
    (reply.op = "set_available_schedules" /\ reply.action_taken = "True") =>
        LET got == cache_get_available_schedules(redis_store, redis_mode,
                                                 reply.data.date, reply.data.doctor_id)
        IN got.hit /\ got.value.schedules = reply.data.schedules

\* A non-empty list has just been set with date and doctor_id both absent.
C10_Witness ==
    /\ reply.op = "set_available_schedules"
    /\ reply.action_taken = "True"
    /\ reply.data.date = ""
    /\ reply.data.doctor_id = 0
    /\ reply.data.schedules # <<>>

\* C11: after invalidate_schedule_cache, whatever its arguments and whatever the
\* cache held before, no key of the 'schedules' namespace is left in the store
\* (so a later get for the invalidated date and doctor is a miss).
C11_InvalidateClearsNamespace ==
    reply.op = "invalidate_schedule_cache" =>
        \A k \in DOMAIN redis_store : k[1] # "schedules"

\* The sessions a turn can start from: the stored ones and a fresh user's.
TurnSessions == {user_sessions[k] : k \in DOMAIN user_sessions} \cup {IdleSession}

----------------------------------------------------------------------------
(* One user's conversations over a wider range of messages: messages that   *)
(* match several pattern groups, bookings by doctor, by date and without a  *)
(* match, and registrations that spell the same CPF in two ways.            *)

\* int() of an eleven-digit text.  The value is read only in comparisons with
\* the length of a list held in a session; it is carried as a number above every
\* such length that the model checker's integers can hold.
ElevenDigitNumber == 2000000000

ChatMessages ==
    { Msg("Oi", {"greeting"}, 0, EmptyDict, FALSE, ""),
      Msg("Quero pagar a consulta", {"payment", "book"}, 0, EmptyDict, FALSE, ""),
      Msg("Quais horários disponíveis?", {"schedule_request"}, 0, EmptyDict, FALSE, ""),
      Msg("Quero cancelar minha consulta", {"cancel", "book"}, 0, EmptyDict, FALSE, ""),
      Msg("Quero consulta com Dr. Maria Silva", {"book"}, 0, EmptyDict, FALSE, "Maria Silva"),
      Msg("Quero agendar uma consulta", {"book"}, 1, EmptyDict, FALSE, ""),
      Msg("Quero consulta com Dr. House", {"book"}, 0, EmptyDict, FALSE, "House"),
      [Msg("Quero consulta dia 16/01/2024", {"book"}, 0, [birth_date |-> "2024-01-16"], TRUE, "")
          EXCEPT !.has_date = TRUE, !.preferred_date = [y |-> 2024, m |-> 1, d |-> 16]],
      Msg("2", {"number"}, 2, EmptyDict, FALSE, ""),
      Msg("Pedro Oliveira", {}, 0, [name |-> "Pedro Oliveira"], FALSE, ""),
      Msg("987.654.321-00, ana@email.com, (11) 97777-0002", {}, 0,
          [cpf |-> "987.654.321-00", email |-> "ana@email.com",
           phone |-> "(11) 97777-0002"], FALSE, ""),
      Msg("987654321-00, ana2@email.com, (11) 97777-0002", {}, 0,
          [cpf |-> "987654321-00", email |-> "ana2@email.com",
           phone |-> "(11) 97777-0002"], FALSE, ""),
      Msg("123.456.789-01, pedro@email.com, (11) 98888-0001", {}, 0,
          [cpf |-> "123.456.789-01", email |-> "pedro@email.com",
           phone |-> "(11) 98888-0001"], FALSE, ""),
      Msg("15/03/1985", {}, 0, [birth_date |-> "1985-03-15"], TRUE, ""),
      Msg("Olá, quero agendar consulta", {"greeting", "book"}, 0, EmptyDict, FALSE, ""),
      Msg("dois, ana@email.com", {"number"}, 2, [email |-> "ana@email.com"], FALSE, ""),
      Msg("98765432100", {"number"}, ElevenDigitNumber,
          [cpf |-> "98765432100", phone |-> "98765432100"], FALSE, ""),
      Msg("11977770002", {"number"}, ElevenDigitNumber,
          [cpf |-> "11977770002", phone |-> "11977770002"], FALSE, ""),
      Msg("asdf", {}, 0, EmptyDict, FALSE, "") }

ChatUser == "default_user"

NextChat ==
    \E m \in ChatMessages : ai_agent_endpoint(ChatUser, m, FALSE)

\* The slots of the conversation: three rows of seed_database, two of them of
\* the same doctor on the same day.
ChatSchedules ==
    << [doctor_id |-> 1, date |-> [y |-> 2024, m |-> 1, d |-> 15],
        start_time |-> [h |-> 9, mi |-> 0], end_time |-> [h |-> 10, mi |-> 0],
        is_available |-> "true"],
       [doctor_id |-> 1, date |-> [y |-> 2024, m |-> 1, d |-> 15],
        start_time |-> [h |-> 10, mi |-> 0], end_time |-> [h |-> 11, mi |-> 0],
        is_available |-> "true"],
       [doctor_id |-> 2, date |-> [y |-> 2024, m |-> 1, d |-> 16],
        start_time |-> [h |-> 11, mi |-> 0], end_time |-> [h |-> 12, mi |-> 0],
        is_available |-> "true"] >>

InitChat ==
    /\ patients = SeedPatients
    /\ appointments = <<>>
    /\ schedules = ChatSchedules
    /\ user_sessions = EmptyDict
    /\ redis_store = EmptyDict
    /\ redis_mode \in {"up", "none"}
    /\ reply = NoReply
    /\ inflight = NoRequests

SpecChat == InitChat /\ [][NextChat]_vars

\* ---------------------------------------------------------------------------
\* Patient registration (complete_appointment_booking, lines 1066-1078)
\* ---------------------------------------------------------------------------

\* The national ID a cpf string denotes: its digits, as cpf_clean computes them
\* (re.sub(r'[.\-]', '', cpf)).  extract_user_data accepts
\* \d{3}\.?\d{3}\.?\d{3}-?\d{2} and stores the matched text as typed.
NationalId(cpf) ==
    CASE cpf = "987.654.321-00" -> "98765432100"
      [] cpf = "987654321-00" -> "98765432100"
      [] cpf = "123.456.789-01" -> "12345678901"
      [] OTHER -> cpf

\* C13: after any sequence of completed registrations no two patient records
\* share a national ID (a registration whose national ID matches an existing
\* patient updates that patient in place instead of adding a record).
C13_NoTwoPatientsShareNationalId ==
    \A i, j \in DOMAIN patients :
        i # j => NationalId(patients[i].cpf) # NationalId(patients[j].cpf)

\* ---------------------------------------------------------------------------
\* Intent classification (analyze_intent, lines 678-753)
\* ---------------------------------------------------------------------------

\* The priority order of the claim: pattern group and the intent it yields.
IntentOrder ==
    << [group |-> "greeting", intent |-> "greeting"],
       [group |-> "payment", intent |-> "payment_info"],
       [group |-> "schedule_request", intent |-> "schedule_request"],
       [group |-> "cancel", intent |-> "cancel_appointment"],
       [group |-> "book", intent |-> "book_appointment"],
       [group |-> "number", intent |-> "number_selection"] >>

\* C15: analyze_intent returns the intent of the first group, in the order
\* greeting, payment_info, schedule_request, cancel_appointment,
\* book_appointment, number_selection, that matches the message; user_data only
\* when no group matches and the message has a user-data shape, otherwise
\* unknown.  A message matching both the payment and the booking group is
\* payment_info, and an idle session answers it with the payment reply.
C15_FirstMatchingIntentWins ==
    /\ \A m \in ChatMessages :
          LET matching == {i \in DOMAIN IntentOrder : IntentOrder[i].group \in m.groups}
              intent == analyze_intent(m)
          IN /\ matching # {} =>
                    \E i \in matching : /\ \A j \in matching : i <= j
                                        /\ intent = IntentOrder[i].intent
             /\ (matching = {} /\ is_user_data(m)) => intent = "user_data"
             /\ (matching = {} /\ ~is_user_data(m)) => intent = "unknown"
             /\ {"payment", "book"} \subseteq m.groups /\ "greeting" \notin m.groups =>
                    /\ intent = "payment_info"
                    /\ HandleTurn(IdleSession, m, World, redis_mode, FALSE).action_taken
                           = "payment_info_provided"
    /\ reply.action_taken = "payment_info_provided" =>
          /\ \E m \in ChatMessages : {"payment", "book"} \subseteq m.groups
          /\ Has(user_sessions, ChatUser) => user_sessions[ChatUser] = IdleSession

\* A payment-and-booking message was answered.
C15_Witness ==
    /\ reply.op = "ai_agent_endpoint"
    /\ reply.action_taken = "payment_info_provided"
    /\ \E m \in ChatMessages : {"payment", "book"} \subseteq m.groups

\* ---------------------------------------------------------------------------
\* The idle state (lines 362-455)
\* ---------------------------------------------------------------------------

\* The intents an idle session answers in one shot.
OneShotIntents ==
    {"greeting", "payment_info", "schedule_request", "number_selection", "user_data", "unknown"}

OneShotReplies ==
    {"greeting", "payment_info_provided", "show_available_schedules", "number_without_context"}

\* C16: in state idle a turn whose intent is greeting, payment_info,
\* schedule_request, number_selection, user_data or unknown leaves the session's
\* state, step and data unchanged and mutates no patient, appointment or slot;
\* a fresh user's first such message creates the session idle, step 0, data {}.
C16_IdleOneShotKeepsSession ==
    /\ [](\A m \in ChatMessages, db_fails \in BOOLEAN :
            LET sessions == get_user_session(user_sessions, ChatUser)
                session == sessions[ChatUser]
                out == HandleTurn(session, m, World, redis_mode, db_fails)
            IN (session.state = "idle" /\ analyze_intent(m) \in OneShotIntents) =>
                  /\ ~Has(user_sessions, ChatUser) =>
                        session = [state |-> "idle", data |-> EmptyDict, step |-> 0]
                  /\ out.session = session
                  /\ ~out.reset /\ ~out.raised
                  /\ out.action_taken \in OneShotReplies
                  /\ out.w.patients = patients
                  /\ out.w.appointments = appointments
                  /\ out.w.schedules = schedules)
    /\ [][(/\ reply'.action_taken \in OneShotReplies
           /\ Has(user_sessions, ChatUser) => user_sessions[ChatUser].state = "idle") =>
             /\ user_sessions' = [u \in {ChatUser} |->
                                     IF Has(user_sessions, ChatUser)
                                     THEN user_sessions[ChatUser]
                                     ELSE [state |-> "idle", data |-> EmptyDict, step |-> 0]]
             /\ patients' = patients
             /\ appointments' = appointments
             /\ schedules' = schedules]_vars

\* An idle user who has booked before gets a one-shot reply.
C16_Witness ==
    /\ reply.action_taken = "number_without_context"
    /\ Has(user_sessions, ChatUser) /\ user_sessions[ChatUser].state = "idle"
    /\ Len(appointments) >= 1

\* ---------------------------------------------------------------------------
\* Registration steps (lines 493-539)
\* ---------------------------------------------------------------------------

\* Step k of registering_patient: the field it expects, the reply when the
\* field arrives, and the prompt it re-emits otherwise.
RegistrationSteps ==
    << [field |-> "name", collected |-> "name_collected", prompt |-> "awaiting_name"],
       [field |-> "cpf", collected |-> "cpf_collected", prompt |-> "awaiting_cpf"],
       [field |-> "email", collected |-> "email_collected", prompt |-> "awaiting_email"],
       [field |-> "phone", collected |-> "phone_collected", prompt |-> "awaiting_phone"] >>

\* C17: in registering_patient at step k (1..4) a user_data message holding
\* the field expected at step k (name, cpf, email, phone) moves the session to
\* step k+1 with the state unchanged; any other message re-emits the prompt of
\* step k and leaves the step unchanged.
C17_RegistrationAdvancesOnExpectedField ==
    /\ [](\A m \in ChatMessages, db_fails \in BOOLEAN :
            LET session == get_user_session(user_sessions, ChatUser)[ChatUser]
                k == session.step
                out == HandleTurn(session, m, World, redis_mode, db_fails)
            IN (session.state = "registering_patient" /\ k \in DOMAIN RegistrationSteps) =>
                  /\ out.session.state = "registering_patient"
                  /\ ~out.reset /\ ~out.raised
                  /\ IF /\ analyze_intent(m) = "user_data"
                        /\ Has(extract_user_data(m), RegistrationSteps[k].field)
                     THEN /\ out.session.step = k + 1
                          /\ out.action_taken = RegistrationSteps[k].collected
                     ELSE /\ out.session.step = k
                          /\ out.action_taken = RegistrationSteps[k].prompt)
    /\ [][(/\ Has(user_sessions, ChatUser)
           /\ user_sessions[ChatUser].state = "registering_patient"
           /\ user_sessions[ChatUser].step \in DOMAIN RegistrationSteps) =>
             LET k == user_sessions[ChatUser].step
                 after == user_sessions'[ChatUser]
             IN /\ after.state = "registering_patient"
                /\ \/ /\ reply'.action_taken = RegistrationSteps[k].collected
                      /\ after.step = k + 1
                      /\ Has(after.data, RegistrationSteps[k].field)
                   \/ /\ reply'.action_taken = RegistrationSteps[k].prompt
                      /\ after.step = k]_vars

\* The national ID arrived at step 2 and the session is at step 3.
C17_Witness ==
    /\ reply.action_taken = "cpf_collected"
    /\ Has(user_sessions, ChatUser)
    /\ user_sessions[ChatUser].state = "registering_patient"
    /\ user_sessions[ChatUser].step = 3

\* ---------------------------------------------------------------------------
\* Booking from idle (lines 380-433)
\* ---------------------------------------------------------------------------

\* The slots storage marks available that a booking message m asks for.
MatchingAvailable(m) ==
    {id \in DOMAIN schedules :
        /\ schedules[id].is_available = "true"
        /\ DoctorNameLike(Doctors[schedules[id].doctor_id].name,
                          extract_doctor_name_from_message(m))
        /\ m.has_date => schedules[id].date = m.preferred_date}

\* C18: in state idle a book_appointment message naming a doctor or a date
\* moves the session to registering_patient, step 1, and pins into session data
\* the first matching slot that storage marks available at that moment; when no
\* available slot matches, or neither doctor nor date is named, the session
\* stays idle with its data unchanged.
C18_BookingPinsFirstAvailableMatch ==
    /\ [](\A m \in ChatMessages :
            LET session == get_user_session(user_sessions, ChatUser)[ChatUser]
                named == extract_doctor_name_from_message(m) # "" \/ m.has_date
                out == HandleTurn(session, m, World, redis_mode, FALSE)
            IN (session.state = "idle" /\ analyze_intent(m) = "book_appointment") =>
                  /\ ~out.reset /\ ~out.raised
                  /\ out.w.patients = patients /\ out.w.appointments = appointments
                  /\ out.w.schedules = schedules
                  /\ IF named /\ MatchingAvailable(m) # {}
                     THEN /\ out.session.state = "registering_patient"
                          /\ out.session.step = 1
                          /\ DOMAIN out.session.data = DOMAIN session.data \cup {"selected_schedule"}
                          /\ LET pinned == out.session.data.selected_schedule
                             IN /\ pinned.id \in MatchingAvailable(m)
                                /\ \A id \in MatchingAvailable(m) : pinned.id <= id
                                /\ pinned.doctor_id = schedules[pinned.id].doctor_id
                                /\ pinned.date = IsoDate(schedules[pinned.id].date)
                                /\ pinned.start_time = IsoTime(schedules[pinned.id].start_time)
                     ELSE out.session = session)
    /\ [][reply'.action_taken = "schedule_selected" =>
             LET after == user_sessions'[ChatUser]
             IN /\ after.state = "registering_patient" /\ after.step = 1
                /\ schedules[after.data.selected_schedule.id].is_available = "true"]_vars
    /\ [][reply'.action_taken \in {"no_schedules_found", "show_availability"} =>
             /\ Has(user_sessions, ChatUser) => user_sessions'[ChatUser] = user_sessions[ChatUser]
             /\ user_sessions'[ChatUser].state = "idle"]_vars

\* The doctor's first slot is taken and the second one, still available, was pinned.
C18_Witness ==
    /\ reply.action_taken = "schedule_selected"
    /\ schedules[1].is_available = "false"
    /\ user_sessions[ChatUser].state = "registering_patient"
    /\ user_sessions[ChatUser].data.selected_schedule.id = 2

\* ---------------------------------------------------------------------------
\* Conversational cancellation (lines 541-659)
\* ---------------------------------------------------------------------------

\* The scheduled appointments of the first patient whose name matches.
ScheduledOfNamed(name) ==
    LET patient == FirstId({row \in DOMAIN patients : PatientNameLike(patients[row].name, name)})
    IN {id \in DOMAIN appointments :
           /\ patient # 0
           /\ appointments[id].patient_id = patient
           /\ appointments[id].status = "scheduled"}

\* C19: in cancelling_appointment at step 1 a user_data message with a name
\* matching a patient who has at least one appointment with status 'scheduled'
\* stores the list of those appointments in the session, lists them numbered
\* from 1 and moves the session to step 2, state still cancelling_appointment.
C19_NameListsAppointments ==
    \A m \in ChatMessages :
        LET session == get_user_session(user_sessions, ChatUser)[ChatUser]
            user_data == extract_user_data(m)
            out == HandleTurn(session, m, World, redis_mode, FALSE)
        IN (/\ session.state = "cancelling_appointment" /\ session.step = 1
            /\ analyze_intent(m) = "user_data" /\ Has(user_data, "name")
            /\ ScheduledOfNamed(user_data.name) # {}) =>
              /\ ~out.raised
              /\ out.action_taken = "appointments_found"
              /\ out.session.state = "cancelling_appointment"
              /\ out.session.step = 2
              /\ Has(out.session.data, "appointments")
              /\ {out.session.data.appointments[i].id :
                     i \in DOMAIN out.session.data.appointments}
                    = ScheduledOfNamed(user_data.name)

----------------------------------------------------------------------------
(* The selection branches, lines 457-491 and 609-653, on the session they   *)
(* read: a turn taken with a pending list in session['data'].               *)

\* What the user can type at a selection prompt, besides the chat vocabulary.
TurnMessages ==
    ChatMessages \cup
    { Msg("0", {"number"}, 0, EmptyDict, FALSE, ""),
      Msg("1", {"number"}, 1, EmptyDict, FALSE, ""),
      Msg("3", {"number"}, 3, EmptyDict, FALSE, ""),
      Msg("5", {"number"}, 5, EmptyDict, FALSE, "") }

\* A slot as a session holds it (lines 400-408).
ScheduleInfo(id) ==
    LET row == ChatSchedules[id]
    IN [id |-> id, date |-> IsoDate(row.date), start_time |-> IsoTime(row.start_time),
        end_time |-> IsoTime(row.end_time), doctor_name |-> Doctors[row.doctor_id].name,
        doctor_specialty |-> Doctors[row.doctor_id].specialty, doctor_id |-> row.doctor_id]

\* An appointment as the cancellation list holds it (lines 561-568).
ListedAppointment(id) ==
    LET row == ChatSchedules[id]
    IN [id |-> id, date |-> IsoDate(row.date), time |-> IsoTime(row.start_time),
        doctor |-> Doctors[row.doctor_id].name]

\* Appointment id of patient 1 on slot id, scheduled or cancelled since.
BookedAppointment(id, cancelled) ==
    [patient_id |-> 1, doctor_id |-> ChatSchedules[id].doctor_id,
     appointment_date |-> ChatSchedules[id].date,
     appointment_time |-> ChatSchedules[id].start_time,
     status |-> IF id \in cancelled THEN "cancelled" ELSE "scheduled"]

MaxBooked == IF MaxAppointments < Len(ChatSchedules) THEN MaxAppointments ELSE Len(ChatSchedules)

\* Sessions waiting for a number: selecting_schedule with the list of slots it
\* was shown, cancelling_appointment at step 2 with the list of appointments it
\* was shown.  The list is the one stored when it was built; storage may have
\* moved on since.
PendingSessions(booked) ==
    {[state |-> "selecting_schedule", step |-> 0, data |-> EmptyDict]}
    \cup {[state |-> "selecting_schedule", step |-> 0,
           data |-> [schedules |-> [i \in 1..k |-> ScheduleInfo(i)]]] :
             k \in 0..Len(ChatSchedules)}
    \cup {[state |-> "cancelling_appointment", step |-> 2,
           data |-> [patient |-> 1, appointments |-> [i \in 1..k |-> ListedAppointment(i)]]] :
             k \in 1..booked}

InitTurn ==
    /\ patients = SeedPatients
    /\ \E booked \in 0..MaxBooked, cancelled \in SUBSET (1..MaxBooked) :
          /\ cancelled \subseteq 1..booked
          /\ appointments = [id \in 1..booked |-> BookedAppointment(id, cancelled)]
          /\ schedules = [id \in DOMAIN ChatSchedules |->
                             IF id \in (1..booked) \ cancelled
                             THEN [ChatSchedules[id] EXCEPT !.is_available = "false"]
                             ELSE ChatSchedules[id]]
          /\ \E session \in PendingSessions(booked) :
                user_sessions = [u \in {ChatUser} |-> session]
    /\ redis_store = EmptyDict
    /\ redis_mode \in {"up", "none"}
    /\ reply = NoReply
    /\ inflight = NoRequests

NextTurn == \E m \in TurnMessages, db_fails \in BOOLEAN : ai_agent_endpoint(ChatUser, m, db_fails)

SpecTurn == InitTurn /\ [][NextTurn]_vars

\* The list a session waits on: the slots of selecting_schedule, the
\* appointments of cancelling_appointment at step 2 (.get(..., [])).
PendingList(session) ==
    CASE session.state = "selecting_schedule" /\ Has(session.data, "schedules") ->
             session.data.schedules
      [] session.state = "cancelling_appointment" /\ session.step = 2
            /\ Has(session.data, "appointments") -> session.data.appointments
      [] OTHER -> <<>>

AwaitsNumber(session) ==
    \/ session.state = "selecting_schedule"
    \/ session.state = "cancelling_appointment" /\ session.step = 2

\* C14: in selecting_schedule, and in cancelling_appointment at step 2, a
\* number_selection whose number is 0, missing or greater than the length of
\* the list held in the session re-prompts and leaves the session's state,
\* step and data and storage unchanged; the bound is the length of the list
\* stored in the session, whatever storage holds by now.
C14_OutOfRangeNumberReprompts ==
    /\ [](\A m \in TurnMessages, db_fails \in BOOLEAN :
            LET session == get_user_session(user_sessions, ChatUser)[ChatUser]
                n == extract_number_from_message(m)
                out == HandleTurn(session, m, World, redis_mode, db_fails)
            IN (/\ AwaitsNumber(session)
                /\ analyze_intent(m) = "number_selection"
                /\ (n = 0 \/ n > Len(PendingList(session)))) =>
                  /\ out.action_taken = "invalid_selection"
                  /\ out.session = session
                  /\ ~out.reset /\ ~out.raised
                  /\ out.w = World)
    /\ [][reply'.action_taken = "invalid_selection" =>
             /\ AwaitsNumber(user_sessions[ChatUser])
             /\ UNCHANGED <<user_sessions, patients, appointments, schedules, redis_store>>]_vars

\* A number within the count storage holds, yet beyond the list the session
\* stored, was refused.
C14_Witness ==
    /\ reply.action_taken = "invalid_selection"
    /\ user_sessions[ChatUser].state = "cancelling_appointment"
    /\ user_sessions[ChatUser].step = 2
    /\ Len(user_sessions[ChatUser].data.appointments) = 1
    /\ Cardinality({id \in DOMAIN appointments : appointments[id].status = "scheduled"}) = 2

C21_NoListingResetsSession ==
    [][reply'.action_taken \in {"patient_not_found", "no_appointments"} =>
          /\ patients' = patients
          /\ appointments' = appointments
          /\ schedules' = schedules
          /\ user_sessions'[NormalizeUserId(reply'.user_id)] = IdleSession]_vars

----------------------------------------------------------------------------
(* Sender identifiers (lines 330-349)                                       *)

\* The user_id values of the identifier study: empty, whitespace only, the
\* placeholder names, and two names with and without surrounding whitespace.
IdUserIds ==
    {"", "   ", "anonymous", "null", "undefined",
     "default_user", " default_user ", "alice", " alice "}

\* POST /agent with a falsy user_id: 'User ID is required', 400 (lines 337-339).
ai_agent_rejects(user_id, m) ==
    /\ user_id = ""
    /\ reply' = [Reply("ai_agent_endpoint", "", 400, [error |-> "User ID is required"])
                    EXCEPT !.user_id = user_id]
    /\ UNCHANGED <<inflight, patients, appointments, schedules, user_sessions, redis_store, redis_mode>>

NextIds ==
    \/ \E u \in IdUserIds, m \in Messages : ai_agent_endpoint(u, m, FALSE)
    \/ \E u \in IdUserIds, m \in Messages : ai_agent_rejects(u, m)

SpecIds == Init /\ [][NextIds]_vars

\* The session key the claim assigns to a user_id.
SharedIds == {"anonymous", "null", "undefined"}

SessionKey(user_id) ==
    IF Strip(user_id) = "" \/ Strip(user_id) \in SharedIds THEN "default_user"
    ELSE Strip(user_id)

\* A turn of user_id was handled against the session stored under key.
HandledAgainst(key) ==
    /\ reply'.status # 400
    /\ Has(user_sessions', key)
    /\ \A k \in DOMAIN user_sessions' \ {key} :
          Has(user_sessions, k) /\ user_sessions'[k] = user_sessions[k]
    /\ \E m \in Messages :
          LET out == HandleTurn(get_user_session(user_sessions, key)[key], m, World,
                                redis_mode, FALSE)
          IN /\ user_sessions'[key] \in {out.session, IdleSession}
             /\ reply'.action_taken = IF out.raised THEN "error_occurred" ELSE out.action_taken

\* C22 as stated: the session is keyed by the trimmed user_id, and every request
\* whose user_id is blank (empty or whitespace only) or equals 'anonymous',
\* 'null' or 'undefined' is handled against the one shared default session.
C22_BlankIdsShareDefaultSession ==
    [][reply'.op = "ai_agent_endpoint" => HandledAgainst(SessionKey(reply'.user_id))]_vars

\* C22 amended: a request with an empty user_id is rejected with 400 and touches
\* no session; every other request is handled against the session keyed by its
\* trimmed user_id, the shared key 'default_user' standing for whitespace-only
\* identifiers and for 'anonymous', 'null' and 'undefined'.
C22_NonEmptyIdsKeyedByTrimmedId ==
    [][reply'.op = "ai_agent_endpoint" =>
          IF reply'.user_id = ""
          THEN /\ reply'.status = 400
               /\ UNCHANGED <<user_sessions, patients, appointments, schedules, redis_store>>
          ELSE HandledAgainst(SessionKey(reply'.user_id))]_vars

\* A whitespace-only sender continued the registration another placeholder
\* sender started, next to a session of its own for alice.
C22_Witness ==
    /\ reply.user_id = "   "
    /\ reply.action_taken = "name_collected"
    /\ Has(user_sessions, "alice")
    /\ DOMAIN user_sessions = {"default_user", "alice"}

\* ---------------------------------------------------------------------------
\* Session shape
\* ---------------------------------------------------------------------------

\* The states the endpoint has a branch for (lines 362, 457, 493, 541).
KnownStates == {"idle", "selecting_schedule", "registering_patient", "cancelling_appointment"}

\* C23: in every reachable state every session's state is one of idle,
\* selecting_schedule, registering_patient, cancelling_appointment, so the
\* catch-all branch for an unrecognized state is never executed.
C23_SessionStatesAreKnown ==
    \A k \in DOMAIN user_sessions : user_sessions[k].state \in KnownStates

\* Two senders are each in the middle of a flow.
C23_Witness ==
    /\ Has(user_sessions, "default_user") /\ Has(user_sessions, "alice")
    /\ user_sessions["default_user"].state = "registering_patient"
    /\ user_sessions["alice"].state = "cancelling_appointment"

\* C24: in every reachable state a session in registering_patient has step in
\* 1..5, a session in cancelling_appointment has step in 1..2, and a session in
\* idle has step 0.
C24_StepWithinStateRange ==
    \A k \in DOMAIN user_sessions :
        LET session == user_sessions[k]
        IN /\ session.state = "registering_patient" => session.step \in 1..5
           /\ session.state = "cancelling_appointment" => session.step \in 1..2
           /\ session.state = "idle" => session.step = 0

\* A registration is at its last step while another sender is cancelling.
C24_Witness ==
    /\ Has(user_sessions, "default_user") /\ Has(user_sessions, "alice")
    /\ user_sessions["default_user"].state = "registering_patient"
    /\ user_sessions["default_user"].step = 5
    /\ user_sessions["alice"].state = "cancelling_appointment"
    /\ user_sessions["alice"].step = 1
    /\ Len(appointments) >= 1

----------------------------------------------------------------------------
(* The REST endpoints on well-formed and malformed requests, database up    *)

RestCreateRequests ==
    CreateRequests \cup
    { [patient_id |-> 1, doctor_id |-> 2, appointment_date |-> "2024-01-16",
       appointment_time |-> "11:00"],
      [patient_id |-> 1, doctor_id |-> 1, appointment_date |-> "2024-01-15",
       appointment_time |-> "9h"],
      [doctor_id |-> 1, appointment_date |-> "2024-01-15", appointment_time |-> "09:00"] }

NextRest ==
    \/ \E q \in AvailabilityQueries : get_available_schedules(q, FALSE)
    \/ \E d \in RestCreateRequests : create_appointment(d, FALSE)
    \/ \E id \in 1..MaxAppointments : cancel_appointment(id, FALSE)
    \/ \E k \in DOMAIN redis_store : Expire(k)
    \/ RedisFails
    \/ RedisRecovers

SpecRest == Init /\ [][NextRest]_vars

\* C25: a REST create_appointment request with a missing required field or a
\* malformed appointment_date or appointment_time is answered with a 4xx error
\* and leaves appointments, slot flags and the cache unchanged; an availability
\* query with a malformed date is answered with a 4xx error and populates no
\* cache entry.
C25_MalformedRequestsGet4xx ==
    [][/\ (reply'.op = "create_appointment"
             /\ reply'.action_taken \in {"missing_field", "error"}) =>
            /\ reply'.status \in 400..499
            /\ UNCHANGED <<appointments, schedules, redis_store>>
       /\ (reply'.op = "get_available_schedules" /\ reply'.action_taken = "invalid_date") =>
            /\ reply'.status \in 400..499
            /\ redis_store' = redis_store]_vars

----------------------------------------------------------------------------
(* Cancellation through both doors: DELETE /appointments/<id> and the        *)
(* conversational step 2, with the database failing or not.                 *)

CancelMessages ==
    {m \in TurnMessages :
        m.text \in {"0", "1", "2", "Quero cancelar minha consulta", "Pedro Oliveira"}}

NextCancel ==
    \/ \E m \in CancelMessages, f \in BOOLEAN : ai_agent_endpoint(ChatUser, m, f)
    \/ \E id \in 1..MaxAppointments, f \in BOOLEAN : cancel_appointment(id, f)
    \/ \E d \in CreateRequests : create_appointment(d, FALSE)

SpecCancel == InitTurn /\ [][NextCancel]_vars

\* C26: cancellation, through REST cancel_appointment or the conversational
\* flow, never deletes an appointment row (the set of appointment ids never
\* shrinks) and is atomic: the status change to 'cancelled' and the slot's flag
\* change to 'true' are both committed or neither is.
C26_CancellationKeepsRowsAndIsAtomic ==
    [][/\ DOMAIN appointments \subseteq DOMAIN appointments'
       /\ \A id \in DOMAIN appointments :
             /\ [appointments'[id] EXCEPT !.status = ""] = [appointments[id] EXCEPT !.status = ""]
             /\ appointments'[id].status # appointments[id].status =>
                   /\ appointments'[id].status = "cancelled"
                   /\ schedules'[ScheduleOf(schedules, appointments[id])].is_available = "true"
       /\ \A s \in DOMAIN schedules :
             (schedules[s].is_available = "false" /\ schedules'[s].is_available = "true") =>
                \E id \in DOMAIN appointments :
                    /\ ScheduleOf(schedules, appointments[id]) = s
                    /\ appointments'[id].status = "cancelled"
       /\ (reply'.op = "cancel_appointment" /\ reply'.status = 200) =>
             appointments'[reply'.data.appointment_id].status = "cancelled"
       /\ (reply'.op \in {"cancel_appointment", "ai_agent_endpoint"}
             /\ reply'.status \in {404, 500}) =>
             UNCHANGED <<appointments, schedules>>]_vars

\* A REST cancellation went through after a conversational one had failed.
C26_Witness ==
    /\ reply.op = "cancel_appointment" /\ reply.status = 200
    /\ appointments[reply.data.appointment_id].status = "cancelled"
    /\ schedules[reply.data.schedule_id].is_available = "true"
    /\ \E id \in DOMAIN appointments : appointments[id].status = "scheduled"

\* ---------------------------------------------------------------------------
\* Cache keys (_generate_cache_key, lines 39-50)
\* ---------------------------------------------------------------------------

\* The texts a caller formats for a date and a doctor id, absent ones included.
KeyDateText(date) == IF date = "" THEN "all" ELSE date

KeyDoctorText(doctor_id) == IF doctor_id = 0 THEN "all" ELSE StrInt(doctor_id)

\* C27: _generate_cache_key is a function of the set of (parameter, value)
\* pairs only: the same date and doctor id produce the same key in whichever
\* order the parameters are passed, and an absent date or doctor id is keyed as
\* the sentinel 'all'.
C27_KeyIgnoresParameterOrder ==
    /\ \A date \in CacheDates, doctor_id \in CacheDoctorIds :
          LET date_first == << <<"date", KeyDateText(date)>>,
                               <<"doctor_id", KeyDoctorText(doctor_id)>> >>
              doctor_first == << <<"doctor_id", KeyDoctorText(doctor_id)>>,
                                 <<"date", KeyDateText(date)>> >>
          IN /\ generate_cache_key("schedules", date_first)
                   = generate_cache_key("schedules", doctor_first)
             /\ ScheduleKey(date, doctor_id) = generate_cache_key("schedules", doctor_first)
             /\ date \notin LongTexts =>
                   generate_cache_key("schedules", doctor_first)
                      = <<"schedules", <<"date", KeyDateText(date)>>,
                                       <<"doctor_id", KeyDoctorText(doctor_id)>>>>
    /\ ScheduleKey("", 0) = <<"schedules", <<"date", "all">>, <<"doctor_id", "all">>>>
    /\ (reply.op = "set_available_schedules" /\ reply.action_taken = "True") =>
          generate_cache_key("schedules",
              << <<"doctor_id", KeyDoctorText(reply.data.doctor_id)>>,
                 <<"date", KeyDateText(reply.data.date)>> >>) \in DOMAIN redis_store

\* An entry was stored without a date and without a doctor: its key is the
\* sentinel pair.
C27_Witness ==
    /\ reply.op = "set_available_schedules" /\ reply.action_taken = "True"
    /\ reply.data.date = "" /\ reply.data.doctor_id = 0
    /\ <<"schedules", <<"date", "all">>, <<"doctor_id", "all">>>> \in DOMAIN redis_store

----------------------------------------------------------------------------
(* Concurrent requests.  The development server handles each request on a  *)
(* thread of its own; a handler's database reads, its commit and its cache  *)
(* calls are separate steps between which other requests run.               *)

\* POST /appointments up to the availability check (lines 173-199).
create_begin(r, data) ==
    LET date == ParseDate(data.appointment_date)
        time == ParseTimeHM(data.appointment_time)
        Free(s) == /\ s.doctor_id = data.doctor_id
                   /\ s.date = date.v
                   /\ s.start_time = time.v
                   /\ s.is_available = "true"
        schedule == FirstId({row \in DOMAIN schedules : Free(schedules[row])})
    IN /\ inflight[r].pc = "done"
       /\ UNCHANGED <<patients, appointments, schedules, user_sessions, redis_store, redis_mode>>
       /\ IF ~(RequiredFields \subseteq DOMAIN data)
          THEN /\ reply' = Reply("create_appointment", "missing_field", 400, EmptyDict)
               /\ inflight' = inflight
          ELSE IF ~date.ok \/ ~time.ok
          THEN /\ reply' = Reply("create_appointment", "error", 500, EmptyDict)
               /\ inflight' = inflight
          ELSE IF schedule = 0
          THEN /\ reply' = Reply("create_appointment", "slot_not_available", 400, EmptyDict)
               /\ inflight' = inflight
          ELSE /\ reply' = reply
               /\ inflight' = [inflight EXCEPT ![r] =
                                  [op |-> "create_appointment", pc |-> "checked",
                                   data |-> data, schedule |-> schedule]]

\* db.add(appointment); schedule.is_available = 'false'; db.commit()
\* (lines 201-216), or the commit raising and the except clause rolling back.
create_commit(r, db_fails) ==
    LET data == inflight[r].data
        appointment == [patient_id |-> data.patient_id, doctor_id |-> data.doctor_id,
                        appointment_date |-> ParseDate(data.appointment_date).v,
                        appointment_time |-> ParseTimeHM(data.appointment_time).v,
                        status |-> "scheduled"]
    IN /\ inflight[r].op = "create_appointment" /\ inflight[r].pc = "checked"
       /\ UNCHANGED <<patients, user_sessions, redis_store, redis_mode>>
       /\ IF db_fails
          THEN /\ UNCHANGED <<appointments, schedules>>
               /\ reply' = Reply("create_appointment", "error", 500, EmptyDict)
               /\ inflight' = [inflight EXCEPT ![r] = NoRequest]
          ELSE /\ Len(appointments) < MaxAppointments
               /\ appointments' = Append(appointments, appointment)
               /\ schedules' = [schedules EXCEPT ![inflight[r].schedule].is_available = "false"]
               /\ reply' = reply
               /\ inflight' = [inflight EXCEPT ![r] =
                                  [op |-> "create_appointment", pc |-> "committed",
                                   data |-> data, schedule |-> inflight[r].schedule,
                                   appointment_id |-> Len(appointments) + 1]]

\* cache_service.invalidate_schedule_cache(...) and the 201 response (lines 218-227).
create_respond(r) ==
    LET data == inflight[r].data
    IN /\ inflight[r].op = "create_appointment" /\ inflight[r].pc = "committed"
       /\ UNCHANGED <<patients, appointments, schedules, user_sessions, redis_mode>>
       /\ redis_store' = invalidate_schedule_cache(redis_store, redis_mode, data.doctor_id,
                             IsoDate(ParseDate(data.appointment_date).v))
       /\ reply' = Reply("create_appointment", "created", 201,
                         [appointment_id |-> inflight[r].appointment_id,
                          schedule_id |-> inflight[r].schedule,
                          doctor_id |-> data.doctor_id,
                          date |-> IsoDate(ParseDate(data.appointment_date).v)])
       /\ inflight' = [inflight EXCEPT ![r] = NoRequest]

\* GET /schedules/available up to the cache lookup (lines 107-122).
query_begin(r, q) ==
    LET cached == cache_get_available_schedules(redis_store, redis_mode, q.date,
                                                IntOf(q.doctor_id))
    IN /\ inflight[r].pc = "done"
       /\ UNCHANGED <<patients, appointments, schedules, user_sessions, redis_store, redis_mode>>
       /\ IF cached.hit
          THEN /\ reply' = Reply("get_available_schedules", "cache_hit", 200,
                                 [date |-> q.date, doctor_id |-> IntOf(q.doctor_id),
                                  schedules |-> cached.value.schedules])
               /\ inflight' = inflight
          ELSE /\ reply' = reply
               /\ inflight' = [inflight EXCEPT ![r] =
                                  [op |-> "get_available_schedules", pc |-> "missed", q |-> q]]

\* The storage read of the miss path (lines 124-150).
query_read(r) ==
    LET q == inflight[r].q
        parsed == IF q.date # "" THEN ParseDate(q.date) ELSE [ok |-> TRUE, v |-> ""]
    IN /\ inflight[r].op = "get_available_schedules" /\ inflight[r].pc = "missed"
       /\ UNCHANGED <<patients, appointments, schedules, user_sessions, redis_store, redis_mode>>
       /\ IF ~parsed.ok
          THEN /\ reply' = Reply("get_available_schedules", "invalid_date", 400, EmptyDict)
               /\ inflight' = [inflight EXCEPT ![r] = NoRequest]
          ELSE /\ reply' = reply
               /\ inflight' = [inflight EXCEPT ![r] =
                                  [op |-> "get_available_schedules", pc |-> "read", q |-> q,
                                   found |-> AvailableDicts(schedules, q.date # "", parsed.v,
                                                            IntOf(q.doctor_id))]]

\* cache_service.set_available_schedules(...) and the response (lines 152-160).
query_respond(r) ==
    LET q == inflight[r].q
    IN /\ inflight[r].op = "get_available_schedules" /\ inflight[r].pc = "read"
       /\ UNCHANGED <<patients, appointments, schedules, user_sessions, redis_mode>>
       /\ redis_store' = cache_set_available_schedules(redis_store, redis_mode,
                             inflight[r].found, q.date, IntOf(q.doctor_id))
       /\ reply' = Reply("get_available_schedules", "cache_miss", 200,
                         [date |-> q.date, doctor_id |-> IntOf(q.doctor_id),
                          schedules |-> inflight[r].found])
       /\ inflight' = [inflight EXCEPT ![r] = NoRequest]

NextRace ==
    \/ \E r \in Requests, d \in CreateRequests : create_begin(r, d)
    \/ \E r \in Requests, f \in BOOLEAN : create_commit(r, f)
    \/ \E r \in Requests : create_respond(r)
    \/ \E r \in Requests, q \in AvailabilityQueries : query_begin(r, q)
    \/ \E r \in Requests : query_read(r)
    \/ \E r \in Requests : query_respond(r)

SpecRace == Init /\ [][NextRace]_vars

\* C28: under any interleaving of two concurrent booking requests for the same
\* available slot at most one of them commits an appointment with status
\* 'scheduled' for that slot; the other fails without creating an appointment.
C28_OneOfTwoRacingBookingsCommits ==
    [][\A r \in Requests :
          (inflight[r].pc = "checked" /\ inflight'[r].pc = "committed") =>
             /\ schedules[inflight[r].schedule].is_available = "true"
             /\ \A id \in DOMAIN appointments :
                   appointments[id].status = "scheduled" =>
                      ScheduleOf(schedules, appointments[id]) # inflight[r].schedule]_vars

\* C29: under any interleaving of a read-through availability query (cache
\* miss, storage read, cache set) with a concurrent booking (commit, then cache
\* invalidation), once both have completed no cache entry lists a slot that
\* storage marks unavailable.
C29_NoStaleEntryAfterRace ==
    (\A r \in Requests : inflight[r].pc = "done") =>
        \A k \in DOMAIN redis_store :
            LET listed == JsonLoads(redis_store[k]).schedules
            IN \A i \in DOMAIN listed : schedules[listed[i].id].is_available = "true"

\* ---------------------------------------------------------------------------
\* Digits-only national ID and phone (lines 504-531, 716-753)
\* ---------------------------------------------------------------------------

\* Texts of eleven digits and nothing else.
DigitsOnlyTexts == {"98765432100", "11977770002"}

\* C30: in registering_patient at step 2 a national ID typed as eleven digits
\* with no punctuation is accepted as the step-2 field and advances the session
\* to step 3, as the step-2 prompt promises; likewise a phone typed as digits
\* only is accepted at step 4.
C30_DigitsOnlyFieldsAccepted ==
    \A m \in ChatMessages :
        LET session == get_user_session(user_sessions, ChatUser)[ChatUser]
            out == HandleTurn(session, m, World, redis_mode, FALSE)
        IN (session.state = "registering_patient" /\ m.text \in DigitsOnlyTexts) =>
              /\ session.step = 2 =>
                    /\ out.action_taken = "cpf_collected"
                    /\ out.session.step = 3
                    /\ Has(out.session.data, "cpf") /\ out.session.data.cpf = m.text
              /\ session.step = 4 =>
                    /\ out.action_taken = "phone_collected"
                    /\ out.session.step = 5
                    /\ Has(out.session.data, "phone") /\ out.session.data.phone = m.text

\* ---------------------------------------------------------------------------
\* REST cancellation of a cancelled appointment (lines 239-257)
\* ---------------------------------------------------------------------------

\* C31: REST cancel_appointment applied to an appointment whose status is
\* already 'cancelled' leaves every slot's availability flag unchanged; it does
\* not make available a slot that a later 'scheduled' appointment holds.
C31_RepeatedCancelKeepsFlags ==
    [][(/\ reply'.op = "cancel_appointment" /\ reply'.status = 200
        /\ appointments[reply'.data.appointment_id].status = "cancelled") =>
          \A s \in DOMAIN schedules : schedules'[s].is_available = schedules[s].is_available]_vars

\* ---------------------------------------------------------------------------
\* Session isolation (lines 28-47, 341-349, 668-670)
\* ---------------------------------------------------------------------------

\* C32: sessions are isolated: a turn sent under user identifier A changes no
\* field of the session of any user whose normalized identifier differs from
\* A's, in every session state and on every path, resets and exceptions
\* included.
C32_TurnsLeaveOtherSessionsAlone ==
    [][reply'.op = "ai_agent_endpoint" =>
          \A k \in DOMAIN user_sessions :
              k # SessionKey(reply'.user_id) =>
                 /\ Has(user_sessions', k)
                 /\ user_sessions'[k] = user_sessions[k]]_vars

\* A turn of alice ended in the except clause, or in a reset, while the shared
\* default session was in the middle of a registration.
C32_Witness ==
    /\ reply.op = "ai_agent_endpoint"
    /\ reply.user_id = " alice "
    /\ reply.action_taken \in {"error_occurred", "no_appointments"}
    /\ Has(user_sessions, "default_user")
    /\ user_sessions["default_user"].state = "registering_patient"
    /\ user_sessions["default_user"].step = 3

\* ---------------------------------------------------------------------------
\* Shape of the session data (lines 411-413, 496-534, 1058-1082)
\* ---------------------------------------------------------------------------

\* The fields a registration has collected once it stands at step k.
CollectedBefore(k) == {RegistrationSteps[j].field : j \in 1..(k - 1)}

\* C33: a session in registering_patient at step k holds the pinned
\* selected_schedule and every field collected at steps 1..k-1 (name, national
\* ID, email, phone), so the step-5 turn finds all five patient fields and the
\* slot; a session in idle has empty data.
C33_SessionDataMatchesStep ==
    \A u \in DOMAIN user_sessions :
        LET session == user_sessions[u]
        IN /\ session.state = "idle" => session.data = EmptyDict
           /\ session.state = "registering_patient" =>
                 /\ session.step \in 1..5
                 /\ Has(session.data, "selected_schedule")
                 /\ \A f \in CollectedBefore(session.step) : Has(session.data, f)
                 /\ \A m \in ChatMessages :
                       (/\ session.step = 5
                        /\ analyze_intent(m) = "user_data"
                        /\ Has(extract_user_data(m), "birth_date")) =>
                          \A f \in PatientFields \cup {"selected_schedule"} :
                              Has(Update(session.data, extract_user_data(m)), f)

\* A registration stands at step 5 with the four earlier fields and the slot.
C33_Witness ==
    /\ reply.action_taken = "phone_collected"
    /\ Has(user_sessions, ChatUser)
    /\ user_sessions[ChatUser].state = "registering_patient"
    /\ user_sessions[ChatUser].step = 5
    /\ \A f \in {"name", "cpf", "email", "phone", "selected_schedule"} :
          Has(user_sessions[ChatUser].data, f)

\* ---------------------------------------------------------------------------
\* The selecting_schedule state (lines 380-444, 457-491)
\* ---------------------------------------------------------------------------

\* The state of user u's session, a user without a session being idle.
StateOf(sessions, u) == IF Has(sessions, u) THEN sessions[u].state ELSE "idle"

\* C34: no sequence of turns from a fresh session puts a session in
\* selecting_schedule, and no turn stores a pending 'schedules' list in session
\* data; every booking enters registering_patient directly from idle.
C34_SelectingScheduleIsNeverEntered ==
    /\ [](\A u \in DOMAIN user_sessions :
             /\ user_sessions[u].state # "selecting_schedule"
             /\ ~Has(user_sessions[u].data, "schedules"))
    /\ [][\A u \in DOMAIN user_sessions' :
             (/\ user_sessions'[u].state = "registering_patient"
              /\ StateOf(user_sessions, u) # "registering_patient") =>
                /\ StateOf(user_sessions, u) = "idle"
                /\ reply'.action_taken = "schedule_selected"
                /\ user_sessions'[u].step = 1]_vars

\* A booking request has taken an idle session straight into registration.
C34_Witness ==
    /\ reply.action_taken = "schedule_selected"
    /\ Has(user_sessions, ChatUser)
    /\ user_sessions[ChatUser].state = "registering_patient"
    /\ DOMAIN user_sessions[ChatUser].data = {"selected_schedule"}
    /\ Len(appointments) > 0

\* ---------------------------------------------------------------------------
\* Progress of a registration (lines 493-539)
\* ---------------------------------------------------------------------------

\* C35: while a session stays in registering_patient its step never decreases
\* and grows by at most one per turn, even when one message carries several
\* fields; the session leaves registering_patient only to idle (completion at
\* step 5, booking error, exception), never to cancelling_appointment or
\* selecting_schedule.
C35_RegistrationStepsOneAtATime ==
    [][\A u \in DOMAIN user_sessions :
          user_sessions[u].state = "registering_patient" =>
             /\ Has(user_sessions', u)
             /\ user_sessions'[u].state \in {"registering_patient", "idle"}
             /\ user_sessions'[u].state = "registering_patient" =>
                   /\ user_sessions'[u].step >= user_sessions[u].step
                   /\ user_sessions'[u].step <= user_sessions[u].step + 1
             /\ user_sessions'[u].state = "idle" =>
                   /\ user_sessions'[u] = IdleSession
                   /\ \/ user_sessions[u].step = 5
                      \/ reply'.action_taken = "error_occurred"]_vars

\* One message carried the national ID, the email and the phone at step 2: all
\* three are stored and the registration stands at step 3.
C35_Witness ==
    /\ reply.action_taken = "cpf_collected"
    /\ Has(user_sessions, "alice")
    /\ user_sessions["alice"].state = "registering_patient"
    /\ user_sessions["alice"].step = 3
    /\ Has(user_sessions["alice"].data, "email")
    /\ Has(user_sessions["alice"].data, "phone")

----------------------------------------------------------------------------
(* Step 2 of the cancellation on a list that storage has outrun (lines      *)
(* 609-647): the session lists appointments whose rows are no longer in the *)
(* appointments table.                                                      *)

\* Senders of the turn: the stored key itself, and an identifier that
\* normalization trims to it.
StaleUserIds == {ChatUser, " default_user "}

\* Sessions at step 2 of the cancellation listing appointments 1..k.
ListingSessions ==
    {[state |-> "cancelling_appointment", step |-> 2,
      data |-> [patient |-> 1, appointments |-> [i \in 1..k |-> ListedAppointment(i)]]] :
        k \in 1..Len(ChatSchedules)}

\* Storage holds the first `booked` appointments only; the session may list more.
InitStale ==
    /\ patients = SeedPatients
    /\ \E booked \in 0..MaxBooked :
          /\ appointments = [id \in 1..booked |-> BookedAppointment(id, {})]
          /\ schedules = [id \in DOMAIN ChatSchedules |->
                             IF id \in 1..booked
                             THEN [ChatSchedules[id] EXCEPT !.is_available = "false"]
                             ELSE ChatSchedules[id]]
    /\ \E session \in ListingSessions : user_sessions = [u \in {ChatUser} |-> session]
    /\ redis_store = EmptyDict
    /\ redis_mode \in {"up", "none"}
    /\ reply = NoReply
    /\ inflight = NoRequests

NextStale ==
    \E u \in StaleUserIds, m \in TurnMessages, db_fails \in BOOLEAN :
        ai_agent_endpoint(u, m, db_fails)

SpecStale == InitStale /\ [][NextStale]_vars

\* The session of ChatUser is at step 2 and message m selects a listed
\* appointment whose row storage no longer holds.
SelectsMissingAppointment(m) ==
    LET session == user_sessions[ChatUser]
        n == extract_number_from_message(m)
    IN /\ session.state = "cancelling_appointment" /\ session.step = 2
       /\ analyze_intent(m) = "number_selection"
       /\ n \in 1..Len(PendingList(session))
       /\ PendingList(session)[n].id \notin DOMAIN appointments

C36_ResetUnderStoredKey ==
    /\ [](\A m \in TurnMessages :
            SelectsMissingAppointment(m) =>
               LET out == HandleTurn(user_sessions[ChatUser], m, World, redis_mode, FALSE)
               IN /\ out.action_taken = "cancellation_error"
                  /\ out.w = World
                  /\ out.reset /\ ~out.raised)
    /\ [][(reply'.action_taken = "cancellation_error" /\ reply'.user_id = ChatUser) =>
             /\ \E m \in TurnMessages : SelectsMissingAppointment(m)
             /\ UNCHANGED <<patients, appointments, schedules, redis_store>>
             /\ user_sessions'[ChatUser] = IdleSession]_vars

----------------------------------------------------------------------------
(* The cache service with its patient entries (cache_service.py lines       *)
(* 109-135 and 156-180): schedule and patient keys in one store.            *)

CachedPatientIds == {1, 2}

\* Patient.to_dict() of the seed patient, as a caller would pass it, and the
\* same patient after a change of phone.
PatientDicts ==
    { [SeedPatients[1] EXCEPT !.birth_date = IsoDate(SeedPatients[1].birth_date)],
      [SeedPatients[1] EXCEPT !.birth_date = IsoDate(SeedPatients[1].birth_date),
                              !.phone = "(11) 97777-0002"] }

\* cache_key = f"patient:{patient_id}"
PatientKey(patient_id) == <<"patient", StrInt(patient_id)>>

\* CacheService.set_patient_cache: the store after the call.
cache_set_patient_cache(store, mode, patient_id, patient_data) ==
    IF mode # "up" THEN store
    ELSE Put(store, PatientKey(patient_id),
             JsonDumps([patient |-> patient_data, cached_at |-> "now"]))

\* cache_service.set_patient_cache(patient_id, patient_data); action_taken is
\* the call's return value.
set_patient_cache(patient_id, patient_data) ==
    /\ redis_store' = cache_set_patient_cache(redis_store, redis_mode, patient_id, patient_data)
    /\ Cardinality(DOMAIN redis_store') <= MaxCacheKeys
    /\ reply' = Reply("set_patient_cache",
                      IF redis_mode = "up" THEN "True" ELSE "False", 0,
                      [patient_id |-> patient_id])
    /\ UNCHANGED <<inflight, patients, appointments, schedules, user_sessions, redis_mode>>

\* cache_service.invalidate_schedule_cache(doctor_id, date), the reply carrying
\* the deleted_count the call logs.
invalidate_counting(doctor_id, date) ==
    /\ redis_store' = invalidate_schedule_cache(redis_store, redis_mode, doctor_id, date)
    /\ reply' = Reply("invalidate_schedule_cache", "None", 0,
                      [date |-> date, doctor_id |-> doctor_id,
                       deleted_count |-> Cardinality(DOMAIN redis_store \ DOMAIN redis_store')])
    /\ UNCHANGED <<inflight, patients, appointments, schedules, user_sessions, redis_mode>>

NextPatientCache ==
    \/ \E l \in SlotLists, d \in CacheDates, id \in CacheDoctorIds :
           set_available_schedules(l, d, id)
    \/ \E id \in CachedPatientIds, p \in PatientDicts : set_patient_cache(id, p)
    \/ \E d \in CacheDates, id \in CacheDoctorIds : invalidate_counting(id, d)
    \/ \E k \in DOMAIN redis_store : Expire(k)
    \/ RedisFails
    \/ RedisRecovers

SpecPatientCache == Init /\ [][NextPatientCache]_vars

\* C37: invalidate_schedule_cache deletes only keys in the 'schedules:'
\* namespace; every 'patient:<id>' cache entry present before the call is
\* present and unchanged after it.
C37_InvalidationKeepsPatientEntries ==
    [][reply'.op = "invalidate_schedule_cache" =>
          \A k \in DOMAIN redis_store :
              /\ ~Has(redis_store', k) => k[1] = "schedules"
              /\ k[1] = "patient" => /\ Has(redis_store', k)
                                     /\ redis_store'[k] = redis_store[k]]_vars

\* An invalidation deleted a schedule entry and the patient entry is still there.
C37_Witness ==
    /\ reply.op = "invalidate_schedule_cache"
    /\ reply.data.deleted_count > 0
    /\ Has(redis_store, PatientKey(1))
    /\ JsonLoads(redis_store[PatientKey(1)]).patient \in PatientDicts

====
